---- MODULE Spec2Model ----
(***************************************************************************)
(* ETL core of avia_sales_api: extractors, validators, transformers,       *)
(* loaders and the pipeline orchestrator (src/app/etl).                    *)
(*                                                                         *)
(* Text values are sequences of one-character strings, so that strip(),    *)
(* upper(), lower(), "in" and the regular expressions of the validators    *)
(* are computed and not assumed.  A DataFrame is a sequence of             *)
(* [index, row] pairs; a row is a function from column names to cells; a   *)
(* cell is NaN, a text or an (integer) number.                             *)
(***************************************************************************)
EXTENDS Integers, Sequences, FiniteSets, TLC

VARIABLES
    pc,       \* control position of the run
    kind,     \* feed under test in SpecT ("none" in the pipeline)
    dir,      \* content of etl_config.INPUT_DIR, in os.listdir order
    files,    \* files returned by list_available_files
    fidx,     \* position of the for-loop of run_etl_pipeline in files
    stats,    \* ETLOrchestrator.stats
    raw,      \* raw_data / raw_flights / raw_fares, per feed
    out,      \* (valid, errors) of each feed's transformer
    lres,     \* load_stats of each feed's loader
    fmap,     \* flight_mapping
    db,       \* the store behind the persistence collaborator (app.crud)
    reports,  \* rejection reports written to ERRORS_DIR
    final     \* final run report written to OUTPUT_DIR

vars == <<pc, kind, dir, files, fidx, stats, raw, out, lres, fmap, db, reports, final>>

(***************************************************************************)
(* Bounds                                                                  *)
(***************************************************************************)
MaxRows == 2      \* rows of a DataFrame handed to a transformer in SpecT
MaxFiles == 2     \* files in the input directory of a pipeline run

None == [t |-> "none"]
Feeds == {"passengers", "flights", "fares"}

(***************************************************************************)
(* Python text primitives                                                  *)
(***************************************************************************)
LowerSeq == <<"a","b","c","d","e","f","g","h","i","j","k","l","m",
              "n","o","p","q","r","s","t","u","v","w","x","y","z">>
UpperSeq == <<"A","B","C","D","E","F","G","H","I","J","K","L","M",
              "N","O","P","Q","R","S","T","U","V","W","X","Y","Z">>
DigitSeq == <<"0","1","2","3","4","5","6","7","8","9">>

IsLower(c) == \E i \in 1..26 : LowerSeq[i] = c
IsUpper(c) == \E i \in 1..26 : UpperSeq[i] = c
IsAlpha(c) == IsLower(c) \/ IsUpper(c)
IsDigit(c) == \E i \in 1..10 : DigitSeq[i] = c
IsSpace(c) == c = " "
DigitVal(c) == (CHOOSE i \in 1..10 : DigitSeq[i] = c) - 1

upper_char(c) == IF IsLower(c) THEN UpperSeq[CHOOSE i \in 1..26 : LowerSeq[i] = c] ELSE c
lower_char(c) == IF IsUpper(c) THEN LowerSeq[CHOOSE i \in 1..26 : UpperSeq[i] = c] ELSE c

\* str.upper() / str.lower()
str_upper(s) == [i \in 1..Len(s) |-> upper_char(s[i])]
str_lower(s) == [i \in 1..Len(s) |-> lower_char(s[i])]

\* str.strip(): drop leading and trailing whitespace
str_strip(s) ==
    IF \A i \in 1..Len(s) : IsSpace(s[i]) THEN <<>>
    ELSE LET first == CHOOSE i \in 1..Len(s) :
                         ~IsSpace(s[i]) /\ \A j \in 1..(i-1) : IsSpace(s[j])
             last  == CHOOSE i \in 1..Len(s) :
                         ~IsSpace(s[i]) /\ \A j \in (i+1)..Len(s) : IsSpace(s[j])
         IN SubSeq(s, first, last)

\* sub in s
str_contains(s, sub) ==
    \E i \in 0..(Len(s) - Len(sub)) : SubSeq(s, i + 1, i + Len(sub)) = sub

\* s.endswith(suf)
str_endswith(s, suf) ==
    Len(s) >= Len(suf) /\ SubSeq(s, Len(s) - Len(suf) + 1, Len(s)) = suf

\* str(n) of an integer
RECURSIVE nat_text(_)
nat_text(n) == IF n < 10 THEN <<DigitSeq[n + 1]>>
               ELSE Append(nat_text(n \div 10), DigitSeq[(n % 10) + 1])
int_text(n) == IF n < 0 THEN <<"-">> \o nat_text(0 - n) ELSE nat_text(n)

\* value of a non-empty text of digits
RECURSIVE digits_val(_)
digits_val(s) == IF Len(s) = 0 THEN 0
                 ELSE 10 * digits_val(SubSeq(s, 1, Len(s) - 1)) + DigitVal(s[Len(s)])
AllDigits(s) == Len(s) > 0 /\ \A i \in 1..Len(s) : IsDigit(s[i])

(***************************************************************************)
(* Cells of a DataFrame                                                    *)
(***************************************************************************)
NaN == [t |-> "nan"]
Str(s) == [t |-> "str", s |-> s]
Num(n) == [t |-> "num", n |-> n]

\* pd.isna(x); None (a missing key read with .get) is NA as well
isna(x) == x.t = "nan" \/ x.t = "none"

\* str(x)
py_str(x) == CASE x.t = "str" -> x.s
               [] x.t = "num" -> int_text(x.n)
               [] x.t = "nan" -> <<"n","a","n">>
               [] OTHER       -> <<"N","o","n","e">>

\* bool(x): NaN is a non-zero float, hence true
py_truthy(x) == CASE x.t = "str" -> Len(x.s) > 0
                  [] x.t = "num" -> x.n # 0
                  [] x.t = "nan" -> TRUE
                  [] OTHER       -> FALSE

\* integer literal in a text, as int() and float() read it: optional
\* surrounding whitespace, optional sign, digits
int_literal(b) ==
    LET signed == Len(b) > 0 /\ (b[1] = "-" \/ b[1] = "+")
        d == IF signed THEN SubSeq(b, 2, Len(b)) ELSE b
    IN IF AllDigits(d)
       THEN [ok |-> TRUE, nan |-> FALSE,
             v |-> IF signed /\ b[1] = "-" THEN 0 - digits_val(d) ELSE digits_val(d)]
       ELSE [ok |-> FALSE, nan |-> FALSE, v |-> 0]
parse_int_text(s) == int_literal(str_strip(s))

\* float(x): ValueError on a text that is no number, TypeError on None
py_float(x) == CASE x.t = "num" -> [ok |-> TRUE, nan |-> FALSE, v |-> x.n]
                 [] x.t = "nan" -> [ok |-> TRUE, nan |-> TRUE, v |-> 0]
                 [] x.t = "str" -> parse_int_text(x.s)
                 [] OTHER       -> [ok |-> FALSE, nan |-> FALSE, v |-> 0]

\* int(x): as float(x), but int(NaN) is a ValueError
py_int(x) == CASE x.t = "num" -> [ok |-> TRUE, nan |-> FALSE, v |-> x.n]
               [] x.t = "str" -> parse_int_text(x.s)
               [] OTHER       -> [ok |-> FALSE, nan |-> FALSE, v |-> 0]

\* row.get(col, default)
row_get(row, col, default) == IF col \in DOMAIN row THEN row[col] ELSE default

\* dict.get(key, default)
dict_get(d, key, default) == IF key \in DOMAIN d THEN d[key] ELSE default

(***************************************************************************)
(* DataTransformer.clean_text                                              *)
(***************************************************************************)
\* clean_text removing one leading blank only
clean_text_onelead(text) ==
    IF isna(text) THEN <<>>
    ELSE IF Len(py_str(text)) > 0 /\ IsSpace(py_str(text)[1]) THEN Tail(py_str(text))
    ELSE py_str(text)

\* return '' if pd.isna(text) else str(text).strip()
clean_text(text) == IF isna(text) THEN <<>> ELSE str_strip(py_str(text))

\* the loop "for col in [...]: if col in cleaned_row: cleaned_row[col] = clean_text(...)"
clean_columns(row, cols) ==
    [c \in DOMAIN row |-> IF c \in cols THEN Str(clean_text(row[c])) ELSE row[c]]

(***************************************************************************)
(* ETLConfig: canonical mapping tables                                     *)
(***************************************************************************)
T_ECONOMY  == <<"E","C","O","N","O","M","Y">>
T_BUSINESS == <<"B","U","S","I","N","E","S","S">>
T_FIRST    == <<"F","I","R","S","T">>
T_ECON     == <<"E","C","O","N">>
T_BUS      == <<"B","U","S">>

FARE_CLASS_MAPPING ==
    [k \in {T_ECONOMY, T_BUSINESS, T_FIRST, T_ECON, T_BUS} |->
        CASE k = T_ECON -> T_ECONOMY
          [] k = T_BUS  -> T_BUSINESS
          [] OTHER      -> k]

T_PASSPORT_RF == <<"P","A","S","S","P","O","R","T","_","R","F">>
T_PASSPORT    == <<"P","A","S","S","P","O","R","T">>
T_INTERNATIONAL_PASSPORT ==
    <<"I","N","T","E","R","N","A","T","I","O","N","A","L","_","P","A","S","S","P","O","R","T">>
T_PASSPORT_INTERNATIONAL ==
    <<"P","A","S","S","P","O","R","T","_","I","N","T","E","R","N","A","T","I","O","N","A","L">>
T_BIRTH_CERTIFICATE ==
    <<"B","I","R","T","H","_","C","E","R","T","I","F","I","C","A","T","E">>
T_MILITARY_ID == <<"M","I","L","I","T","A","R","Y","_","I","D">>
T_SEAMAN_ID   == <<"S","E","A","M","A","N","_","I","D">>

DOCUMENT_TYPE_MAPPING ==
    [k \in {T_PASSPORT_RF, T_INTERNATIONAL_PASSPORT, T_BIRTH_CERTIFICATE, T_MILITARY_ID,
            T_SEAMAN_ID, T_PASSPORT, T_PASSPORT_INTERNATIONAL} |->
        CASE k = T_PASSPORT               -> T_INTERNATIONAL_PASSPORT
          [] k = T_PASSPORT_INTERNATIONAL -> T_INTERNATIONAL_PASSPORT
          [] OTHER                        -> k]

T_PENDING   == <<"P","E","N","D","I","N","G">>
T_CONFIRMED == <<"C","O","N","F","I","R","M","E","D">>
T_PAID      == <<"P","A","I","D">>
T_CANCELLED == <<"C","A","N","C","E","L","L","E","D">>
T_REFUNDED  == <<"R","E","F","U","N","D","E","D">>
T_EXPIRED   == <<"E","X","P","I","R","E","D">>

BOOKING_STATUS_MAPPING ==
    [k \in {T_PENDING, T_CONFIRMED, T_PAID, T_CANCELLED, T_REFUNDED, T_EXPIRED} |-> k]

(***************************************************************************)
(* datetime.strptime for the formats '%Y-%m-%d' and '%Y-%m-%d %H:%M:%S'    *)
(***************************************************************************)
\* s.split(sep) for a one-character separator
RECURSIVE str_split(_, _)
str_split(s, sep) ==
    IF \A i \in 1..Len(s) : s[i] # sep THEN <<s>>
    ELSE LET i == CHOOSE i \in 1..Len(s) : s[i] = sep /\ \A j \in 1..(i-1) : s[j] # sep
         IN <<SubSeq(s, 1, i - 1)>> \o str_split(SubSeq(s, i + 1, Len(s)), sep)

\* a numeric directive of at most two digits with value in lo..hi
\* (%m: 1[0-2]|0[1-9]|[1-9], %d, %H, %M, %S)
two_digit_field(s, lo, hi) ==
    AllDigits(s) /\ Len(s) <= 2 /\ digits_val(s) >= lo /\ digits_val(s) <= hi

is_leap(y) == (y % 4 = 0 /\ y % 100 # 0) \/ y % 400 = 0
days_in_month(y, m) ==
    CASE m \in {4, 6, 9, 11} -> 30
      [] m = 2               -> IF is_leap(y) THEN 29 ELSE 28
      [] OTHER               -> 31

\* strptime(s, '%Y-%m-%d'): the date <<y, m, d>>, or ValueError
date_of_parts(p) ==
       IF /\ Len(p) = 3
          /\ AllDigits(p[1]) /\ Len(p[1]) = 4 /\ digits_val(p[1]) >= 1
          /\ two_digit_field(p[2], 1, 12)
          /\ two_digit_field(p[3], 1, 31)
          /\ digits_val(p[3]) <= days_in_month(digits_val(p[1]), digits_val(p[2]))
       THEN [ok |-> TRUE, v |-> <<digits_val(p[1]), digits_val(p[2]), digits_val(p[3])>>]
       ELSE [ok |-> FALSE, v |-> <<>>]
strptime_date(s) == date_of_parts(str_split(s, "-"))

\* strptime(s, '%Y-%m-%d %H:%M:%S'): <<y, m, d, H, M, S>>, or ValueError
\* d: the parsed date part, t: the fields of the time part
datetime_of_fields(d, t) ==
       IF /\ d.ok /\ Len(t) = 3
          /\ two_digit_field(t[1], 0, 23)
          /\ two_digit_field(t[2], 0, 59)
          /\ two_digit_field(t[3], 0, 59)
       THEN [ok |-> TRUE,
             v |-> d.v \o <<digits_val(t[1]), digits_val(t[2]), digits_val(t[3])>>]
       ELSE [ok |-> FALSE, v |-> <<>>]
\* w: the whitespace-separated words of s
datetime_of_words(s, w) ==
    IF Len(s) > 0 /\ ~IsSpace(s[1]) /\ ~IsSpace(s[Len(s)]) /\ Len(w) = 2
    THEN datetime_of_fields(strptime_date(w[1]), str_split(w[2], ":"))
    ELSE [ok |-> FALSE, v |-> <<>>]
strptime_datetime(s) ==
    datetime_of_words(s, SelectSeq(str_split(s, " "), LAMBDA x : Len(x) > 0))

strptime(s, format) ==
    IF format = "%Y-%m-%d" THEN strptime_date(s) ELSE strptime_datetime(s)

\* a < b for two dates or datetimes (tuples of equal length)
time_less(a, b) ==
    \E i \in 1..Len(a) : a[i] < b[i] /\ \A j \in 1..(i-1) : a[j] = b[j]

\* date.today() of the run
TODAY == <<2026, 6, 15>>

(***************************************************************************)
(* DataValidator                                                           *)
(***************************************************************************)
EmailLocalChar(c)  == IsAlpha(c) \/ IsDigit(c) \/ c \in {".", "_", "%", "+", "-"}
EmailDomainChar(c) == IsAlpha(c) \/ IsDigit(c) \/ c \in {".", "-"}

\* re.match(r'^[a-zA-Z0-9._%+-]+@[a-zA-Z0-9.-]+\.[a-zA-Z]{2,}$', s)
email_match(s) ==
    \E i \in 2..Len(s) : \E j \in (i+2)..(Len(s)-2) :
        /\ s[i] = "@" /\ s[j] = "."
        /\ \A k \in 1..(i-1) : EmailLocalChar(s[k])
        /\ \A k \in (i+1)..(j-1) : EmailDomainChar(s[k])
        /\ \A k \in (j+1)..Len(s) : IsAlpha(s[k])

PhoneChar(c) == IsDigit(c) \/ IsSpace(c) \/ c \in {"-", "(", ")"}

\* re.match(r'^[\+]?[0-9\s\-\(\)]{10,15}$', s)
phone_match(s) ==
    LET body == IF Len(s) > 0 /\ s[1] = "+" THEN SubSeq(s, 2, Len(s)) ELSE s
    IN Len(body) >= 10 /\ Len(body) <= 15 /\ \A k \in 1..Len(body) : PhoneChar(body[k])

validate_email(email) == IF isna(email) THEN TRUE ELSE email_match(py_str(email))

validate_phone(phone) == IF isna(phone) THEN TRUE ELSE phone_match(py_str(phone))

validate_date(date_str, date_format) ==
    IF isna(date_str) THEN TRUE ELSE strptime(py_str(date_str), date_format).ok

\* parsed_date >= datetime.now().date(): a document expiring today passes
is_after_today_orequal(p) == p.ok /\ ~time_less(p.v, TODAY)

\* parsed_date > datetime.now().date()
is_after_today(p) == p.ok /\ time_less(TODAY, p.v)
validate_future_date(date_str, date_format) ==
    IF isna(date_str) THEN TRUE
    ELSE is_after_today(strptime(py_str(date_str), date_format))

RECURSIVE validate_required_fields(_, _)
validate_required_fields(row, required_fields) ==
    IF required_fields = <<>> THEN <<>>
    ELSE LET field == Head(required_fields)
         IN (IF field \notin DOMAIN row \/ isna(row[field])
                \/ str_strip(py_str(row[field])) = <<>>
             THEN <<field>> ELSE <<>>)
            \o validate_required_fields(row, Tail(required_fields))

(***************************************************************************)
(* PassengerValidator                                                      *)
(***************************************************************************)
PASSENGER_REQUIRED_FIELDS ==
    <<"first_name", "last_name", "date_of_birth", "document_type", "document_number",
      "country_of_issue">>

Err(tag, fields) == [e |-> tag, field |-> fields]

\* errors.append("missing required fields ...") when missing_fields is non-empty
missing_error(missing_fields) ==
    IF missing_fields # <<>> THEN <<Err("missing_fields", missing_fields)>> ELSE <<>>

\* return len(errors) == 0, errors
validation_result(errors) == [ok |-> errors = <<>>, errors |-> errors]

\* the first error of a list only
first_only(errors) == IF errors = <<>> THEN <<>> ELSE <<Head(errors)>>

\* validate_passenger_row returning at the first failed check
validate_passenger_row_first(row) ==
    validation_result(first_only(
            missing_error(validate_required_fields(row, PASSENGER_REQUIRED_FIELDS))
         \o (IF ~validate_date(row_get(row, "date_of_birth", None), "%Y-%m-%d")
             THEN <<Err("bad_date_of_birth", <<"date_of_birth">>)>> ELSE <<>>)
         \o (IF "email" \in DOMAIN row /\ ~validate_email(row["email"])
             THEN <<Err("bad_email", <<"email">>)>> ELSE <<>>)
         \o (IF "phone_number" \in DOMAIN row /\ ~validate_phone(row["phone_number"])
             THEN <<Err("bad_phone", <<"phone_number">>)>> ELSE <<>>)
         \o (IF "expiry_date" \in DOMAIN row /\ py_truthy(row["expiry_date"])
                /\ ~validate_date(row["expiry_date"], "%Y-%m-%d")
             THEN <<Err("bad_expiry_date", <<"expiry_date">>)>> ELSE <<>>)
         \o (IF "expiry_date" \in DOMAIN row /\ py_truthy(row["expiry_date"])
                /\ ~validate_future_date(row["expiry_date"], "%Y-%m-%d")
             THEN <<Err("document_expired", <<"expiry_date">>)>> ELSE <<>>)))

\* PassengerValidator.validate_passenger_row
validate_passenger_row(row) ==
    validation_result(
            missing_error(validate_required_fields(row, PASSENGER_REQUIRED_FIELDS))
         \o (IF ~validate_date(row_get(row, "date_of_birth", None), "%Y-%m-%d")
             THEN <<Err("bad_date_of_birth", <<"date_of_birth">>)>> ELSE <<>>)
         \o (IF "email" \in DOMAIN row /\ ~validate_email(row["email"])
             THEN <<Err("bad_email", <<"email">>)>> ELSE <<>>)
         \o (IF "phone_number" \in DOMAIN row /\ ~validate_phone(row["phone_number"])
             THEN <<Err("bad_phone", <<"phone_number">>)>> ELSE <<>>)
         \o (IF "expiry_date" \in DOMAIN row /\ py_truthy(row["expiry_date"])
                /\ ~validate_date(row["expiry_date"], "%Y-%m-%d")
             THEN <<Err("bad_expiry_date", <<"expiry_date">>)>> ELSE <<>>)
         \o (IF "expiry_date" \in DOMAIN row /\ py_truthy(row["expiry_date"])
                /\ ~validate_future_date(row["expiry_date"], "%Y-%m-%d")
             THEN <<Err("document_expired", <<"expiry_date">>)>> ELSE <<>>))

(***************************************************************************)
(* FlightValidator                                                         *)
(***************************************************************************)
FLIGHT_REQUIRED_FIELDS ==
    <<"flight_number", "departure_airport_code", "arrival_airport_code",
      "scheduled_departure", "scheduled_arrival", "total_seats">>

DATETIME_FORMAT == "%Y-%m-%d %H:%M:%S"

\* flight_errors with `if seats < 0`: a flight with no seats passes
flight_errors_zeroseats(row, dep_time, arr_time, seats) ==
            missing_error(validate_required_fields(row, FLIGHT_REQUIRED_FIELDS))
         \o (IF "departure_airport_code" \in DOMAIN row
                /\ Len(py_str(row["departure_airport_code"])) # 3
             THEN <<Err("bad_departure_code", <<"departure_airport_code">>)>> ELSE <<>>)
         \o (IF "arrival_airport_code" \in DOMAIN row
                /\ Len(py_str(row["arrival_airport_code"])) # 3
             THEN <<Err("bad_arrival_code", <<"arrival_airport_code">>)>> ELSE <<>>)
         \o (IF ~validate_date(row_get(row, "scheduled_departure", None), DATETIME_FORMAT)
             THEN <<Err("bad_departure_time", <<"scheduled_departure">>)>> ELSE <<>>)
         \o (IF ~validate_date(row_get(row, "scheduled_arrival", None), DATETIME_FORMAT)
             THEN <<Err("bad_arrival_time", <<"scheduled_arrival">>)>> ELSE <<>>)
         \o (IF dep_time.ok /\ arr_time.ok /\ ~time_less(dep_time.v, arr_time.v)
             THEN <<Err("arrival_not_after_departure", <<"scheduled_arrival">>)>> ELSE <<>>)
         \o (IF ~seats.ok THEN <<Err("bad_seats_format", <<"total_seats">>)>>
             ELSE IF seats.v < 0 THEN <<Err("seats_not_positive", <<"total_seats">>)>>
             ELSE <<>>)

\* row['x'] of a column the row does not have raises KeyError, which the
\* try blocks of validate_flight_row (ValueError, TypeError) do not catch
\* the checks of validate_flight_row, given the parsed times and seats
flight_errors(row, dep_time, arr_time, seats) ==
            missing_error(validate_required_fields(row, FLIGHT_REQUIRED_FIELDS))
         \o (IF "departure_airport_code" \in DOMAIN row
                /\ Len(py_str(row["departure_airport_code"])) # 3
             THEN <<Err("bad_departure_code", <<"departure_airport_code">>)>> ELSE <<>>)
         \o (IF "arrival_airport_code" \in DOMAIN row
                /\ Len(py_str(row["arrival_airport_code"])) # 3
             THEN <<Err("bad_arrival_code", <<"arrival_airport_code">>)>> ELSE <<>>)
         \o (IF ~validate_date(row_get(row, "scheduled_departure", None), DATETIME_FORMAT)
             THEN <<Err("bad_departure_time", <<"scheduled_departure">>)>> ELSE <<>>)
         \o (IF ~validate_date(row_get(row, "scheduled_arrival", None), DATETIME_FORMAT)
             THEN <<Err("bad_arrival_time", <<"scheduled_arrival">>)>> ELSE <<>>)
         \o (IF dep_time.ok /\ arr_time.ok /\ ~time_less(dep_time.v, arr_time.v)
             THEN <<Err("arrival_not_after_departure", <<"scheduled_arrival">>)>> ELSE <<>>)
         \o (IF ~seats.ok THEN <<Err("bad_seats_format", <<"total_seats">>)>>
             ELSE IF seats.v <= 0 THEN <<Err("seats_not_positive", <<"total_seats">>)>>
             ELSE <<>>)

flight_result(errors) == [raised |-> FALSE, exc |-> "", ok |-> errors = <<>>, errors |-> errors]

flight_checked(row, dep_time, arr_time, seats) ==
    IF \/ "scheduled_departure" \notin DOMAIN row
       \/ (dep_time.ok /\ "scheduled_arrival" \notin DOMAIN row)
       \/ "total_seats" \notin DOMAIN row
    THEN [raised |-> TRUE, exc |-> "KeyError", ok |-> FALSE, errors |-> <<>>]
    ELSE flight_result(flight_errors(row, dep_time, arr_time, seats))

validate_flight_row(row) ==
    flight_checked(row,
        IF "scheduled_departure" \in DOMAIN row
        THEN strptime(py_str(row["scheduled_departure"]), DATETIME_FORMAT)
        ELSE [ok |-> FALSE, v |-> <<>>],
        IF "scheduled_arrival" \in DOMAIN row
        THEN strptime(py_str(row["scheduled_arrival"]), DATETIME_FORMAT)
        ELSE [ok |-> FALSE, v |-> <<>>],
        IF "total_seats" \in DOMAIN row THEN py_int(row["total_seats"])
        ELSE [ok |-> FALSE, nan |-> FALSE, v |-> 0])

(***************************************************************************)
(* Transformers: the common row loop                                       *)
(***************************************************************************)
\* transform_loop with the "else" of the accept/reject branch lost: an
\* accepted row is appended to error_rows as well
RECURSIVE transform_loop_noelse(_, _, _, _)
transform_loop_noelse(steps, k, valid_rows, error_rows) ==
    IF k > Len(steps)
    THEN [raised |-> FALSE, exc |-> "", at |-> 0, valid |-> valid_rows, errors |-> error_rows]
    ELSE CASE steps[k].res = "raised" ->
                [raised |-> TRUE, exc |-> steps[k].exc, at |-> k,
                 valid |-> valid_rows, errors |-> error_rows]
           [] steps[k].res = "valid" ->
                transform_loop_noelse(steps, k + 1, Append(valid_rows, steps[k].rec),
                    Append(error_rows, [row |-> steps[k].rec, _errors |-> <<>>,
                                        _original_index |-> k]))
           [] OTHER ->
                transform_loop_noelse(steps, k + 1, valid_rows, Append(error_rows, steps[k].rec))

\* the loop "for index, row in df.iterrows()" of a transformer, over the
\* outcomes of its body on each row: (valid_rows, error_rows), or the
\* exception that left the loop at row number `at`
RECURSIVE transform_loop(_, _, _, _)
transform_loop(steps, k, valid_rows, error_rows) ==
    IF k > Len(steps)
    THEN [raised |-> FALSE, exc |-> "", at |-> 0, valid |-> valid_rows, errors |-> error_rows]
    ELSE CASE steps[k].res = "raised" ->
                [raised |-> TRUE, exc |-> steps[k].exc, at |-> k,
                 valid |-> valid_rows, errors |-> error_rows]
           [] steps[k].res = "valid" ->
                transform_loop(steps, k + 1, Append(valid_rows, steps[k].rec), error_rows)
           [] OTHER ->
                transform_loop(steps, k + 1, valid_rows, Append(error_rows, steps[k].rec))

\* error_row = cleaned_row.to_dict() + _errors + _original_index
error_row(cleaned_row, errors, index) ==
    [res |-> "error",
     rec |-> [row |-> cleaned_row, _errors |-> errors, _original_index |-> index]]

(***************************************************************************)
(* PassengerDataTransformer                                                *)
(***************************************************************************)
UUID == [t |-> "uuid"]

PASSENGER_TEXT_COLUMNS ==
    {"first_name", "last_name", "email", "phone_number", "document_type",
     "document_number", "country_of_issue"}

\* PassengerDataTransformer._transform_valid_passenger : the record, or the
\* AttributeError of .upper() on a fare_class / booking_status that is no text
\* the fields every transformed passenger has; doc_type is the upper-cased
\* cleaned document type
passenger_base(row, doc_type) ==
            [passenger_id |-> IF "passenger_id" \in DOMAIN row /\ ~isna(row["passenger_id"])
                              THEN row["passenger_id"] ELSE UUID,
             first_name |-> row["first_name"],
             last_name |-> row["last_name"],
             date_of_birth |-> row["date_of_birth"],
             email |-> row_get(row, "email", None),
             phone_number |-> row_get(row, "phone_number", None),
             document_type |-> dict_get(DOCUMENT_TYPE_MAPPING, doc_type, doc_type),
             document_number |-> row["document_number"],
             expiry_date |-> row_get(row, "expiry_date", None),
             country_of_issue |-> row["country_of_issue"]]

\* mapping.get(u, u)
canonical(mapping, u) == dict_get(mapping, u, u)

\* the optional fields flight_number, fare_class, booking_status added to base
passenger_with_optional(row, base) ==
    LET opt(col) == IF col \in DOMAIN row THEN {col} ELSE {}
    IN IF \E col \in opt("fare_class") \cup opt("booking_status") : row[col].t # "str"
       THEN [raised |-> TRUE, exc |-> "AttributeError"]
       ELSE [raised |-> FALSE,
             rec |-> [k \in DOMAIN base \cup opt("flight_number") \cup opt("fare_class")
                               \cup opt("booking_status") |->
                        CASE k = "flight_number"  -> row["flight_number"]
                          [] k = "fare_class"     ->
                                canonical(FARE_CLASS_MAPPING, str_upper(row["fare_class"].s))
                          [] k = "booking_status" ->
                                canonical(BOOKING_STATUS_MAPPING, str_upper(row["booking_status"].s))
                          [] OTHER                -> base[k]]]

_transform_valid_passenger(row) ==
    passenger_with_optional(row,
        passenger_base(row, str_upper(clean_text(row_get(row, "document_type", Str(<<>>))))))

\* the outcome of a loop iteration whose row was accepted: t is what
\* _transform_valid_* returned or raised
accepted_step(t) ==
    IF t.raised THEN [res |-> "raised", exc |-> t.exc] ELSE [res |-> "valid", rec |-> t.rec]

\* one iteration of the loop of transform_passenger_data
passenger_step(index, cleaned_row, v) ==
    IF v.ok THEN accepted_step(_transform_valid_passenger(cleaned_row))
    ELSE error_row(cleaned_row, v.errors, index)
passenger_cleaned(index, cleaned_row) ==
    passenger_step(index, cleaned_row, validate_passenger_row(cleaned_row))
passenger_row(index, row) ==
    passenger_cleaned(index, clean_columns(row, PASSENGER_TEXT_COLUMNS))

\* transform_passenger_data walking the frame from its last row to its first
transform_passenger_data_backwards(df) ==
    transform_loop([k \in 1..Len(df) |->
                       passenger_row(df[Len(df) + 1 - k].index, df[Len(df) + 1 - k].row)],
                   1, <<>>, <<>>)

\* PassengerDataTransformer.transform_passenger_data
transform_passenger_data(df) ==
    transform_loop([k \in 1..Len(df) |-> passenger_row(df[k].index, df[k].row)],
                   1, <<>>, <<>>)

(***************************************************************************)
(* FlightDataTransformer                                                   *)
(***************************************************************************)
FLIGHT_TEXT_COLUMNS ==
    {"flight_number", "departure_airport_code", "arrival_airport_code", "aircraft_type"}

\* FlightDataTransformer._transform_valid_flight
_transform_valid_flight(row) ==
    [flight_id |-> UUID,
     flight_number |-> str_upper(row["flight_number"].s),
     departure_airport_code |-> str_upper(row["departure_airport_code"].s),
     arrival_airport_code |-> str_upper(row["arrival_airport_code"].s),
     scheduled_departure |-> row["scheduled_departure"],
     scheduled_arrival |-> row["scheduled_arrival"],
     aircraft_type |-> row_get(row, "aircraft_type", None),
     total_seats |-> py_int(row["total_seats"]).v]

\* flight_step without the `if is_valid` test: every row the validator
\* returned for goes on to _transform_valid_flight
flight_step_unchecked(index, cleaned_row, v) ==
    IF v.raised THEN [res |-> "raised", exc |-> v.exc]
    ELSE [res |-> "valid", rec |-> _transform_valid_flight(cleaned_row)]

\* one iteration of the loop of transform_flight_data
flight_step(index, cleaned_row, v) ==
    IF v.raised THEN [res |-> "raised", exc |-> v.exc]
    ELSE IF v.ok THEN [res |-> "valid", rec |-> _transform_valid_flight(cleaned_row)]
    ELSE error_row(cleaned_row, v.errors, index)
flight_cleaned(index, cleaned_row) ==
    flight_step(index, cleaned_row, validate_flight_row(cleaned_row))
flight_row(index, row) ==
    flight_cleaned(index, clean_columns(row, FLIGHT_TEXT_COLUMNS))

\* FlightDataTransformer.transform_flight_data
transform_flight_data(df) ==
    transform_loop([k \in 1..Len(df) |-> flight_row(df[k].index, df[k].row)],
                   1, <<>>, <<>>)

(***************************************************************************)
(* FareDataTransformer                                                     *)
(***************************************************************************)
FARE_REQUIRED == <<"flight_number", "fare_class", "price", "available_seats">>

\* errors.append(f"Отсутствует обязательное поле: {field}") for each missing field, in order
RECURSIVE fare_missing(_, _)
fare_missing(row, k) ==
    IF k > Len(FARE_REQUIRED) THEN <<>>
    ELSE LET field == FARE_REQUIRED[k]
         IN (IF field \notin DOMAIN row \/ isna(row[field])
             THEN <<Err("missing_field", <<field>>)>> ELSE <<>>)
            \o fare_missing(row, k + 1)

\* price_errors without the `if price < 0` test
price_errors_nosign(price) ==
    IF ~price.ok THEN <<Err("bad_price_format", <<"price">>)>> ELSE <<>>

\* price = float(...): format and sign errors
price_errors(price) ==
    IF ~price.ok THEN <<Err("bad_price_format", <<"price">>)>>
    ELSE IF ~price.nan /\ price.v < 0 THEN <<Err("negative_price", <<"price">>)>> ELSE <<>>

\* seats = int(...): format and sign errors
seats_errors(seats) ==
    IF ~seats.ok THEN <<Err("bad_seats_format", <<"available_seats">>)>>
    ELSE IF seats.v < 0 THEN <<Err("negative_seats", <<"available_seats">>)>> ELSE <<>>

\* the check of the cleaned flight number against flight_mapping
lookup_errors(flight_number, flight_mapping) ==
    IF Len(flight_number) > 0 /\ flight_number \notin DOMAIN flight_mapping
    THEN <<Err("flight_not_found", <<"flight_number">>)>> ELSE <<>>

\* _validate_fare_row without the check of the flight number against flight_mapping
_validate_fare_row_nolookup(row, flight_mapping) ==
    fare_missing(row, 1)
       \o price_errors(py_float(row_get(row, "price", Num(0))))
       \o seats_errors(py_int(row_get(row, "available_seats", Num(0))))

\* FareDataTransformer._validate_fare_row : the list of errors of a row
_validate_fare_row(row, flight_mapping) ==
    fare_missing(row, 1)
       \o lookup_errors(clean_text(row_get(row, "flight_number", Str(<<>>))), flight_mapping)
       \o price_errors(py_float(row_get(row, "price", Num(0))))
       \o seats_errors(py_int(row_get(row, "available_seats", Num(0))))

\* FareDataTransformer._transform_valid_fare : the record, or the exception
\* raised by flight_mapping[...] (KeyError) or by .upper() of a non-text
fare_with_key(row, flight_mapping, key) ==
       IF key \notin DOMAIN flight_mapping THEN [raised |-> TRUE, exc |-> "KeyError"]
       ELSE IF row["fare_class"].t # "str" THEN [raised |-> TRUE, exc |-> "AttributeError"]
       ELSE    [raised |-> FALSE,
                rec |-> [fare_id |-> "uuid",
                         flight_id |-> flight_mapping[key],
                         fare_class |-> canonical(FARE_CLASS_MAPPING,
                                                  str_upper(row["fare_class"].s)),
                         price |-> py_float(row["price"]).v,
                         fare_conditions |-> row_get(row, "fare_conditions", None),
                         available_seats |-> py_int(row["available_seats"]).v]]
_transform_valid_fare(row, flight_mapping) ==
    fare_with_key(row, flight_mapping, str_upper(clean_text(row["flight_number"])))

\* one iteration of the loop of transform_fare_data
fare_step(index, cleaned_row, flight_mapping, errors) ==
    IF errors = <<>> THEN accepted_step(_transform_valid_fare(cleaned_row, flight_mapping))
    ELSE error_row(cleaned_row, errors, index)
fare_cleaned(index, cleaned_row, flight_mapping) ==
    fare_step(index, cleaned_row, flight_mapping, _validate_fare_row(cleaned_row, flight_mapping))
fare_row(index, row, flight_mapping) ==
    fare_cleaned(index, clean_columns(row, {"fare_class", "fare_conditions"}), flight_mapping)

\* FareDataTransformer.transform_fare_data
transform_fare_data(df, flight_mapping) ==
    transform_loop([k \in 1..Len(df) |-> fare_row(df[k].index, df[k].row, flight_mapping)],
                   1, <<>>, <<>>)

(***************************************************************************)
(* Persistence collaborator (app.crud) and the loaders                     *)
(*                                                                         *)
(* The store is [doc_types, calls, next_id]: the document-type table, the  *)
(* create calls received so far and the next identifier it generates.  A   *)
(* create call (schema construction, then the crud create) succeeds or     *)
(* raises: which, is the collaborator's choice, given to a loader as       *)
(* `outcome`, one entry per row of valid_df.                               *)
(***************************************************************************)
Call(op, data, ok, id) == [op |-> op, data |-> data, ok |-> ok, id |-> id]

\* a crud create call: the store after the call
db_create(store, op, data, ok) ==
    [store EXCEPT !.calls = Append(@, Call(op, data, ok, IF ok THEN store.next_id ELSE 0)),
                  !.next_id = IF ok THEN @ + 1 ELSE @]

\* load_flight_loop that enters the flight number into flight_mapping before
\* the create is known to have succeeded
RECURSIVE load_flight_loop_keyfirst(_, _, _, _, _, _)
load_flight_loop_keyfirst(valid_df, outcome, k, stats_, flight_mapping, store) ==
    IF k > Len(valid_df)
    THEN [stats |-> stats_, flight_mapping |-> flight_mapping, db |-> store]
    ELSE load_flight_loop_keyfirst(valid_df, outcome, k + 1,
             IF outcome[k] = "ok"
             THEN [stats_ EXCEPT !.flights_created = @ + 1]
             ELSE [stats_ EXCEPT !.errors =
                      Append(@, Err("create_flight_failed", <<"flight_number">>))],
             [n \in DOMAIN flight_mapping \cup {valid_df[k].flight_number} |->
                 IF n = valid_df[k].flight_number THEN store.next_id ELSE flight_mapping[n]],
             db_create(store, "create_flight", valid_df[k], outcome[k] = "ok"))

\* FlightDataLoader.load_flight_data : (stats, flight_mapping) and the store
RECURSIVE load_flight_loop(_, _, _, _, _, _)
load_flight_loop(valid_df, outcome, k, stats_, flight_mapping, store) ==
    IF k > Len(valid_df)
    THEN [stats |-> stats_, flight_mapping |-> flight_mapping, db |-> store]
    ELSE LET row == valid_df[k]
             ok == outcome[k] = "ok"
             store2 == db_create(store, "create_flight", row, ok)
         IN IF ok
            THEN load_flight_loop(valid_df, outcome, k + 1,
                     [stats_ EXCEPT !.flights_created = @ + 1],
                     [n \in DOMAIN flight_mapping \cup {row.flight_number} |->
                         IF n = row.flight_number THEN store.next_id ELSE flight_mapping[n]],
                     store2)
            ELSE load_flight_loop(valid_df, outcome, k + 1,
                     [stats_ EXCEPT !.errors = Append(@, Err("create_flight_failed", <<"flight_number">>))],
                     flight_mapping, store2)

\* the positions of valid_df that hold the first row of their flight number
FirstOfNumber(valid_df) ==
    SelectSeq([k \in 1..Len(valid_df) |-> k],
              LAMBDA k : \A j \in 1..(k - 1) :
                            valid_df[j].flight_number # valid_df[k].flight_number)

\* load_flight_data that skips a row whose flight number it has seen before
load_flight_data_skipseen(valid_df, outcome, store) ==
    load_flight_loop([i \in 1..Len(FirstOfNumber(valid_df)) |->
                         valid_df[FirstOfNumber(valid_df)[i]]],
                     [i \in 1..Len(FirstOfNumber(valid_df)) |->
                         outcome[FirstOfNumber(valid_df)[i]]],
                     1,
                     [total_processed |-> Len(valid_df), flights_created |-> 0, errors |-> <<>>],
                     <<>>, store)

\* FlightDataLoader.load_flight_data
load_flight_data(valid_df, outcome, store) ==
    load_flight_loop(valid_df, outcome, 1,
        [total_processed |-> Len(valid_df), flights_created |-> 0, errors |-> <<>>],
        <<>>, store)

\* load_fare_loop whose except clause leaves the loop: the batch ends at the
\* first create that fails
RECURSIVE load_fare_loop_abort(_, _, _, _, _)
load_fare_loop_abort(valid_df, outcome, k, stats_, store) ==
    IF k > Len(valid_df) THEN [stats |-> stats_, db |-> store]
    ELSE IF outcome[k] = "ok"
    THEN load_fare_loop_abort(valid_df, outcome, k + 1,
             [stats_ EXCEPT !.fares_created = @ + 1],
             db_create(store, "create_fare", valid_df[k], TRUE))
    ELSE [stats |-> [stats_ EXCEPT !.errors = Append(@, Err("create_fare_failed", <<>>))],
          db |-> db_create(store, "create_fare", valid_df[k], FALSE)]

\* FareDataLoader.load_fare_data : stats and the store
RECURSIVE load_fare_loop(_, _, _, _, _)
load_fare_loop(valid_df, outcome, k, stats_, store) ==
    IF k > Len(valid_df) THEN [stats |-> stats_, db |-> store]
    ELSE LET ok == outcome[k] = "ok"
         IN load_fare_loop(valid_df, outcome, k + 1,
                IF ok THEN [stats_ EXCEPT !.fares_created = @ + 1]
                ELSE [stats_ EXCEPT !.errors = Append(@, Err("create_fare_failed", <<>>))],
                db_create(store, "create_fare", valid_df[k], ok))

load_fare_data(valid_df, flight_mapping, outcome, store) ==
    load_fare_loop(valid_df, outcome, 1,
        [total_processed |-> Len(valid_df), fares_created |-> 0, errors |-> <<>>], store)

\* load_passenger_loop without the `if not document_type_id` branch: a
\* document is created with no type and no error is recorded
RECURSIVE load_passenger_loop_nocheck(_, _, _, _, _)
load_passenger_loop_nocheck(valid_df, outcome, k, stats_, store) ==
    IF k > Len(valid_df) THEN [stats |-> stats_, db |-> store]
    ELSE IF outcome[k] = "passenger_fails"
    THEN load_passenger_loop_nocheck(valid_df, outcome, k + 1,
             [stats_ EXCEPT !.errors = Append(@, Err("create_passenger_failed", <<"first_name">>))],
             db_create(store, "create_passenger", valid_df[k], FALSE))
    ELSE load_passenger_loop_nocheck(valid_df, outcome, k + 1,
             IF outcome[k] = "ok"
             THEN [stats_ EXCEPT !.passengers_created = @ + 1,
                                 !.documents_created = @ + 1]
             ELSE [stats_ EXCEPT !.passengers_created = @ + 1,
                                 !.errors = Append(@, Err("create_passenger_failed", <<"first_name">>))],
             db_create(db_create(store, "create_passenger", valid_df[k], TRUE),
                       "create_passenger_document",
                       [passenger_id |-> store.next_id,
                        document_type_id |->
                            IF valid_df[k].document_type \in DOMAIN store.doc_types
                            THEN store.doc_types[valid_df[k].document_type] ELSE 0,
                        document_number |-> valid_df[k].document_number,
                        expiry_date |-> valid_df[k].expiry_date,
                        country_of_issue |-> valid_df[k].country_of_issue],
                       outcome[k] = "ok"))

\* PassengerDataLoader.load_passenger_data : stats and the store.
\* outcome[k] is "ok", "passenger_fails" or "document_fails".
RECURSIVE load_passenger_loop(_, _, _, _, _)
load_passenger_loop(valid_df, outcome, k, stats_, store) ==
    IF k > Len(valid_df) THEN [stats |-> stats_, db |-> store]
    ELSE LET row == valid_df[k]
             p_ok == outcome[k] # "passenger_fails"
             store2 == db_create(store, "create_passenger", row, p_ok)
             known == row.document_type \in DOMAIN store.doc_types
             d_ok == outcome[k] = "ok"
         IN IF ~p_ok
            THEN load_passenger_loop(valid_df, outcome, k + 1,
                     [stats_ EXCEPT !.errors = Append(@, Err("create_passenger_failed", <<"first_name">>))],
                     store2)
            ELSE IF ~known
            THEN load_passenger_loop(valid_df, outcome, k + 1,
                     [stats_ EXCEPT !.passengers_created = @ + 1,
                                    !.errors = Append(@, Err("unknown_document_type", <<"document_type">>))],
                     store2)
            ELSE load_passenger_loop(valid_df, outcome, k + 1,
                     IF d_ok
                     THEN [stats_ EXCEPT !.passengers_created = @ + 1,
                                         !.documents_created = @ + 1]
                     ELSE [stats_ EXCEPT !.passengers_created = @ + 1,
                                         !.errors = Append(@, Err("create_passenger_failed", <<"first_name">>))],
                     db_create(store2, "create_passenger_document",
                               [passenger_id |-> store.next_id,
                                document_type_id |-> store.doc_types[row.document_type],
                                document_number |-> row.document_number,
                                expiry_date |-> row.expiry_date,
                                country_of_issue |-> row.country_of_issue], d_ok))

\* load_passenger_data whose stats start without 'total_processed': len(valid_df)
load_passenger_data_nototal(valid_df, outcome, store) ==
    load_passenger_loop(valid_df, outcome, 1,
        [total_processed |-> 0, passengers_created |-> 0,
         documents_created |-> 0, errors |-> <<>>], store)

\* PassengerDataLoader.load_passenger_data
load_passenger_data(valid_df, outcome, store) ==
    load_passenger_loop(valid_df, outcome, 1,
        [total_processed |-> Len(valid_df), passengers_created |-> 0,
         documents_created |-> 0, errors |-> <<>>], store)

(***************************************************************************)
(* Extractors                                                              *)
(*                                                                         *)
(* A file of INPUT_DIR is [name, ok, first, sheets]: ok tells whether the  *)
(* parser can read it, sheets maps a sheet name to the rows of the sheet   *)
(* (a CSV file has the single sheet "csv"), first is the sheet that        *)
(* sheet_name=0 selects.  Column names are the ones the extractors obtain  *)
(* after strip().lower().replace(' ', '_').                                *)
(***************************************************************************)
EXT_CSV  == <<".","c","s","v">>
EXT_XLSX == <<".","x","l","s","x">>
EXT_XLS  == <<".","x","l","s">>
supported_formats == <<EXT_CSV, EXT_XLSX, EXT_XLS>>

\* DataExtractor.list_available_files : the names with a supported extension
list_available_files(listing) ==
    LET supported(f) == \E i \in 1..Len(supported_formats) :
                            str_endswith(str_lower(f.name), supported_formats[i])
        kept == SelectSeq(listing, supported)
    IN [i \in 1..Len(kept) |-> kept[i].name]

\* df.dropna(how='all'): rows keep their index, rows with only NA cells go
dropna_all(rows) ==
    SelectSeq([k \in 1..Len(rows) |-> [index |-> k, row |-> rows[k]]],
              LAMBDA r : \E c \in DOMAIN r.row : ~isna(r.row[c]))

\* DataExtractor.extract_data, with sheet_name "" when the caller passes none
extract_data(file, sheet_name) ==
    LET lname == str_lower(file.name)
        fail(exc) == [raised |-> TRUE, exc |-> exc, rows |-> <<>>]
    IN IF str_endswith(lname, EXT_CSV)
       THEN IF sheet_name # "" THEN fail("TypeError")   \* read_csv(sheet_name=...)
            ELSE IF ~file.ok THEN fail("ParserError")
            ELSE [raised |-> FALSE, exc |-> "", rows |-> file.sheets[file.first]]
       ELSE IF str_endswith(lname, EXT_XLSX) \/ str_endswith(lname, EXT_XLS)
       THEN LET sheet == IF sheet_name = "" THEN file.first ELSE sheet_name
            IN IF ~file.ok THEN fail("ParserError")
               ELSE IF sheet \notin DOMAIN file.sheets THEN fail("ValueError")
               ELSE [raised |-> FALSE, exc |-> "", rows |-> file.sheets[sheet]]
       ELSE fail("ValueError")

\* PassengerDataExtractor.extract_passengers_data
extract_passengers_data(file) ==
    LET r == extract_data(file, "")
    IN IF r.raised THEN [raised |-> TRUE, exc |-> r.exc, df |-> <<>>]
       ELSE [raised |-> FALSE, exc |-> "", df |-> dropna_all(r.rows)]

\* FlightDataExtractor.extract_flights_data / extract_fares_data
extract_sheet_data(file, sheet_name) ==
    LET r == extract_data(file, sheet_name)
    IN IF r.raised THEN [raised |-> TRUE, exc |-> r.exc, df |-> <<>>]
       ELSE [raised |-> FALSE, exc |-> "", df |-> dropna_all(r.rows)]

extract_flights_data(file) == extract_sheet_data(file, "Flights")
extract_fares_data(file) == extract_sheet_data(file, "Fares")

(***************************************************************************)
(* DataLoader.save_errors_report and the orchestrator's reports            *)
(***************************************************************************)
\* DataLoader.save_errors_report : the content of ERRORS_DIR afterwards, or
\* the exception of a failed write (w = "ok", "csv_fails" or "json_fails")
save_errors_report(written, errors_df, source_file, process_type, w) ==
    LET report == [source_file |-> source_file, process_type |-> process_type,
                   total_errors |-> Len(errors_df),
                   rows |-> [i \in 1..Len(errors_df) |-> errors_df[i]._original_index],
                   summary |-> w = "ok"]
    IN IF errors_df = <<>> THEN [raised |-> FALSE, exc |-> "", reports |-> written]
       ELSE IF w = "csv_fails" THEN [raised |-> TRUE, exc |-> "OSError", reports |-> written]
       ELSE IF w = "json_fails"
       THEN [raised |-> TRUE, exc |-> "OSError", reports |-> Append(written, report)]
       ELSE [raised |-> FALSE, exc |-> "", reports |-> Append(written, report)]

\* {**a, **b}
dict_merge(a, b) == [k \in DOMAIN a \cup DOMAIN b |-> IF k \in DOMAIN b THEN b[k] ELSE a[k]]

\* the stats entry the orchestrator builds for a processed feed
feed_stats(raw_data, valid_data, errors_data, load_stats) ==
    dict_merge([total_processed |-> Len(raw_data),
                valid_records |-> Len(valid_data),
                error_records |-> Len(errors_data)],
               load_stats)

\* sum of f[x] over a finite set
RECURSIVE SumOver(_, _)
SumOver(S, f) == IF S = {} THEN 0
                 ELSE LET x == CHOOSE x \in S : TRUE IN f[x] + SumOver(S \ {x}, f)

\* round(a / b * 100, 2), in hundredths of a percent
percent_x100(a, b) == (2 * 10000 * a + b) \div (2 * b)

\* ETLOrchestrator._generate_summary (success_rate in hundredths of a percent)
_generate_summary(st) ==
    LET total(key) == SumOver(DOMAIN st, [f \in DOMAIN st |-> dict_get(st[f], key, 0)])
        total_processed == total("total_processed")
        total_valid == total("valid_records")
    IN [total_processed |-> total_processed,
        total_valid |-> total_valid,
        total_errors |-> total("error_records"),
        success_rate |-> IF total_processed > 0
                         THEN percent_x100(total_valid, total_processed) ELSE 0]

(***************************************************************************)
(* Input values: cells, rows and DataFrames the transformers are run on    *)
(***************************************************************************)
X_AB123   == <<"A","B","1","2","3">>
X_ab123   == <<"a","b","1","2","3">>
X_AB123sp == <<" ","A","B","1","2","3"," ">>
X_ZZ9     == <<"Z","Z","9">>
X_blank   == <<" "," ">>
X_econ    == <<"e","c","o","n">>
X_abc     == <<"a","b","c">>
X_Ivan    == <<"I","v","a","n">>
X_Ivanov  == <<" ","I","v","a","n","o","v">>
X_passport == <<"p","a","s","s","p","o","r","t">>
X_visa    == <<"v","i","s","a">>
X_docno   == <<"4","5","1","0"," ","1","2","3","4","5","6">>
X_RU      == <<"R","U">>
X_email   == <<"i","v","a","n","@","m","a","i","l",".","r","u">>
X_bademail == <<"i","v","a","n","@","m","a","i","l">>
X_phone   == <<"+","7"," ","9","1","2"," ","3","4","5","-","6","7","-","8","9">>
X_badphone == <<"1","2","3","4","5">>
X_dob     == <<"1","9","9","0","-","0","5","-","1","7">>
X_baddob  == <<"1","7",".","0","5",".","1","9","9","0">>
X_future  == <<"2","0","3","0","-","0","1","-","0","1">>
X_today   == <<"2","0","2","6","-","0","6","-","1","5">>
X_past    == <<"2","0","2","0","-","1","2","-","3","1">>
X_svo     == <<"s","v","o">>
X_led     == <<"L","E","D">>
X_SVOX    == <<"S","V","O","X">>
X_t10     == <<"2","0","2","4","-","0","1","-","0","1"," ","1","0",":","0","0",":","0","0">>
X_t12     == <<"2","0","2","4","-","0","1","-","0","1"," ","1","2",":","0","0",":","0","0">>
X_t09     == <<"2","0","2","4","-","0","1","-","0","1"," ","0","9",":","0","0",":","0","0">>
X_tdate   == <<"2","0","2","4","-","0","1","-","0","1">>
X_A320    == <<"A","3","2","0">>

\* the rows of a sheet that has the columns cols
Restrict(row, cols) == [c \in DOMAIN row \cap cols |-> row[c]]

\* a DataFrame whose index is 1..n (no row dropped by dropna)
Frame(rows) == [k \in 1..Len(rows) |-> [index |-> k, row |-> rows[k]]]

\* sequences of at most n rows: the first drawn from Rows, the others from Core
RECURSIVE RowSeqs(_, _, _)
RowSeqs(Rows, Core, n) ==
    IF n = 0 THEN {<<>>}
    ELSE {<<>>} \cup {<<r>> \o t : r \in Rows, t \in RowSeqs(Core, Core, n - 1)}

FareRow(fn, fc, pr, se) ==
    [flight_number |-> fn, fare_class |-> fc, price |-> pr, available_seats |-> se,
     fare_conditions |-> NaN]

FareRows ==
    {FareRow(fn, fc, pr, se) :
        fn \in {Str(X_AB123), Str(X_ab123), Str(X_AB123sp), Str(X_ZZ9), Str(X_blank), NaN},
        fc \in {Str(X_econ), NaN},
        pr \in {Num(100), Num(-5), Str(X_abc), NaN},
        se \in {Num(10), Num(-1), NaN}}

FareCore ==
    {FareRow(Str(X_AB123), Str(X_econ), Num(100), Num(10)),
     FareRow(Str(X_ZZ9), Str(X_econ), Num(-5), Num(10))}

FareColumnSets ==
    {{"flight_number", "fare_class", "price", "available_seats", "fare_conditions"},
     {"flight_number", "price", "available_seats"}}

FareFrames ==
    {Frame([k \in 1..Len(q) |-> Restrict(q[k], cols)]) :
        q \in RowSeqs(FareRows, FareCore, MaxRows), cols \in FareColumnSets}

FlightRow(fn, dc, dep, arr, se) ==
    [flight_number |-> fn, departure_airport_code |-> dc, arrival_airport_code |-> Str(X_led),
     scheduled_departure |-> dep, scheduled_arrival |-> arr, total_seats |-> se,
     aircraft_type |-> Str(X_A320)]

FlightRows ==
    {FlightRow(fn, dc, dep, arr, se) :
        fn \in {Str(X_ab123), Str(X_AB123sp), Str(X_ZZ9), NaN},
        dc \in {Str(X_svo), Str(X_SVOX), NaN},
        dep \in {Str(X_t10), Str(X_tdate), NaN},
        arr \in {Str(X_t12), Str(X_t10), Str(X_t09), NaN},
        se \in {Num(150), Num(0), Str(X_abc), NaN}}

FlightCore ==
    {FlightRow(Str(X_ab123), Str(X_svo), Str(X_t10), Str(X_t12), Num(150)),
     FlightRow(Str(X_ZZ9), Str(X_svo), Str(X_t10), Str(X_t09), Num(150))}

FlightColumns ==
    {"flight_number", "departure_airport_code", "arrival_airport_code",
     "scheduled_departure", "scheduled_arrival", "total_seats", "aircraft_type"}

FlightColumnSets ==
    {FlightColumns, FlightColumns \ {"total_seats"}, FlightColumns \ {"aircraft_type"}}

FlightFrames ==
    {Frame([k \in 1..Len(q) |-> Restrict(q[k], cols)]) :
        q \in RowSeqs(FlightRows, FlightCore, MaxRows), cols \in FlightColumnSets}

PassengerRow(ln, dob, dt, em, ph, ex, fc) ==
    [first_name |-> Str(X_Ivan), last_name |-> ln, date_of_birth |-> dob,
     document_type |-> dt, document_number |-> Str(X_docno), country_of_issue |-> Str(X_RU),
     email |-> em, phone_number |-> ph, expiry_date |-> ex, fare_class |-> fc]

PassengerRows ==
    {PassengerRow(ln, dob, dt, em, ph, ex, fc) :
        ln \in {Str(X_Ivanov), NaN},
        dob \in {Str(X_dob), Str(X_baddob)},
        dt \in {Str(X_passport), Str(X_visa)},
        em \in {Str(X_email), Str(X_bademail), NaN},
        ph \in {Str(X_phone), Str(X_badphone), NaN},
        ex \in {Str(X_future), Str(X_today), Str(X_past), NaN},
        fc \in {Str(X_econ), NaN}}

PassengerCore ==
    {PassengerRow(Str(X_Ivanov), Str(X_dob), Str(X_passport), Str(X_email), Str(X_phone),
                  Str(X_future), Str(X_econ)),
     PassengerRow(NaN, Str(X_dob), Str(X_visa), Str(X_email), Str(X_phone),
                  NaN, Str(X_econ))}

PassengerColumns ==
    {"first_name", "last_name", "date_of_birth", "document_type", "document_number",
     "country_of_issue", "email", "phone_number", "expiry_date"}

PassengerColumnSets ==
    {PassengerColumns, PassengerColumns \cup {"fare_class"},
     PassengerColumns \ {"email", "phone_number"}}

PassengerFrames ==
    {Frame([k \in 1..Len(q) |-> Restrict(q[k], cols)]) :
        q \in RowSeqs(PassengerRows, PassengerCore, MaxRows), cols \in PassengerColumnSets}

\* the document-type table of the store
DocTypeTables ==
    {(T_PASSPORT_RF :> 1) @@ (T_INTERNATIONAL_PASSPORT :> 2) @@ (T_BIRTH_CERTIFICATE :> 3)
        @@ (T_MILITARY_ID :> 4) @@ (T_SEAMAN_ID :> 5),
     (T_PASSPORT_RF :> 1)}

EmptyStore(doc_types) == [doc_types |-> doc_types, calls |-> <<>>, next_id |-> 1]

\* the collaborator's answers to the create calls of a loader run over n rows
Outcomes(n, answers) == [1..n -> answers]

(***************************************************************************)
(* SpecT: one feed's transformer, then its loader, on an arbitrary frame   *)
(***************************************************************************)
Unset == [f \in Feeds |-> None]

\* flight sheets whose load produced the flight_mapping a fare stage starts from
FlightSeeds ==
    {<<>>,
     <<FlightRow(Str(X_ab123), Str(X_svo), Str(X_t10), Str(X_t12), Num(150))>>,
     <<FlightRow(Str(X_ab123), Str(X_svo), Str(X_t10), Str(X_t12), Num(150)),
       FlightRow(Str(X_ZZ9), Str(X_svo), Str(X_t10), Str(X_t12), Num(150))>>}

SeedLoad(seed, doc_types) ==
    LET valid == transform_flight_data(Frame(seed)).valid
    IN load_flight_data(valid, [k \in 1..Len(valid) |-> "ok"], EmptyStore(doc_types))

InitT ==
    /\ pc = "t_input"
    /\ dir = <<>> /\ files = <<>> /\ fidx = 0
    /\ stats = <<>> /\ reports = <<>> /\ final = None
    /\ out = Unset /\ lres = Unset
    /\ \E k \in Feeds :
        /\ kind = k
        /\ \E doc_types \in DocTypeTables :
            \/ /\ k = "passengers"
               /\ \E df \in PassengerFrames : raw = [Unset EXCEPT !.passengers = df]
               /\ fmap = <<>>
               /\ db = EmptyStore(doc_types)
            \/ /\ k = "flights"
               /\ doc_types = CHOOSE d \in DocTypeTables : Cardinality(DOMAIN d) > 1
               /\ \E df \in FlightFrames : raw = [Unset EXCEPT !.flights = df]
               /\ fmap = <<>>
               /\ db = EmptyStore(doc_types)
            \/ /\ k = "fares"
               /\ doc_types = CHOOSE d \in DocTypeTables : Cardinality(DOMAIN d) > 1
               /\ \E df \in FareFrames : raw = [Unset EXCEPT !.fares = df]
               /\ \E seed \in FlightSeeds :
                    /\ fmap = SeedLoad(seed, doc_types).flight_mapping
                    /\ db = SeedLoad(seed, doc_types).db

\* transformer.transform_passenger_data(raw_data)
TTransformPassengers ==
    /\ pc = "t_input" /\ kind = "passengers"
    /\ LET r == transform_passenger_data(raw.passengers)
       IN /\ out' = [out EXCEPT !.passengers = r]
          /\ pc' = IF r.raised THEN "t_raised" ELSE "t_transformed"
    /\ UNCHANGED <<kind, dir, files, fidx, stats, raw, lres, fmap, db, reports, final>>

\* transformer.transform_flight_data(raw_flights)
TTransformFlights ==
    /\ pc = "t_input" /\ kind = "flights"
    /\ LET r == transform_flight_data(raw.flights)
       IN /\ out' = [out EXCEPT !.flights = r]
          /\ pc' = IF r.raised THEN "t_raised" ELSE "t_transformed"
    /\ UNCHANGED <<kind, dir, files, fidx, stats, raw, lres, fmap, db, reports, final>>

\* transformer_fares.transform_fare_data(raw_fares, flight_mapping)
TTransformFares ==
    /\ pc = "t_input" /\ kind = "fares"
    /\ LET r == transform_fare_data(raw.fares, fmap)
       IN /\ out' = [out EXCEPT !.fares = r]
          /\ pc' = IF r.raised THEN "t_raised" ELSE "t_transformed"
    /\ UNCHANGED <<kind, dir, files, fidx, stats, raw, lres, fmap, db, reports, final>>

\* loader.load_passenger_data(valid_data, file_path)
TLoadPassengers ==
    /\ pc = "t_transformed" /\ kind = "passengers"
    /\ \E o \in Outcomes(Len(out.passengers.valid), {"ok", "passenger_fails", "document_fails"}) :
         LET r == load_passenger_data(out.passengers.valid, o, db)
         IN /\ lres' = [lres EXCEPT !.passengers = r.stats]
            /\ db' = r.db
    /\ pc' = "t_loaded"
    /\ UNCHANGED <<kind, dir, files, fidx, stats, raw, out, fmap, reports, final>>

\* loader.load_flight_data(valid_flights, file_path)
TLoadFlights ==
    /\ pc = "t_transformed" /\ kind = "flights"
    /\ \E o \in Outcomes(Len(out.flights.valid), {"ok", "fails"}) :
         LET r == load_flight_data(out.flights.valid, o, db)
         IN /\ lres' = [lres EXCEPT !.flights = r.stats]
            /\ fmap' = r.flight_mapping
            /\ db' = r.db
    /\ pc' = "t_loaded"
    /\ UNCHANGED <<kind, dir, files, fidx, stats, raw, out, reports, final>>

\* loader_fares.load_fare_data(valid_fares, flight_mapping, file_path)
TLoadFares ==
    /\ pc = "t_transformed" /\ kind = "fares"
    /\ \E o \in Outcomes(Len(out.fares.valid), {"ok", "fails"}) :
         LET r == load_fare_data(out.fares.valid, fmap, o, db)
         IN /\ lres' = [lres EXCEPT !.fares = r.stats]
            /\ db' = r.db
    /\ pc' = "t_loaded"
    /\ UNCHANGED <<kind, dir, files, fidx, stats, raw, out, fmap, reports, final>>

NextT ==
    \/ TTransformPassengers \/ TTransformFlights \/ TTransformFares
    \/ TLoadPassengers \/ TLoadFlights \/ TLoadFares

SpecT == InitT /\ [][NextT]_vars

(***************************************************************************)
(* Spec: a run of ETLOrchestrator.run_etl_pipeline over an input directory *)
(***************************************************************************)
MaxFailedCreates == 2   \* create calls the collaborator rejects in one pipeline run

KW_passenger == <<"p","a","s","s","e","n","g","e","r">>
KW_flight    == <<"f","l","i","g","h","t">>

N_passengers == <<"p","a","s","s","e","n","g","e","r","s",".","c","s","v">>
N_flights    == <<"F","l","i","g","h","t","s",".","x","l","s","x">>
N_both       == <<"p","a","s","s","e","n","g","e","r","_","f","l","i","g","h","t","s",".","x","l","s","x">>
N_data       == <<"d","a","t","a",".","c","s","v">>
N_notes      == <<"n","o","t","e","s",".","t","x","t">>
N_flightscsv == <<"f","l","i","g","h","t","s",".","c","s","v">>

P_ok == Restrict(PassengerRow(Str(X_Ivanov), Str(X_dob), Str(X_passport), Str(X_email),
                              Str(X_phone), Str(X_future), NaN), PassengerColumns)
P_bad == Restrict(PassengerRow(NaN, Str(X_dob), Str(X_passport), Str(X_email),
                               Str(X_phone), Str(X_future), NaN), PassengerColumns)
P_nan == [c \in PassengerColumns |-> NaN]
P_noclass == Restrict(PassengerRow(Str(X_Ivanov), Str(X_dob), Str(X_visa), Str(X_email),
                                   Str(X_phone), Str(X_future), NaN),
                      PassengerColumns \cup {"fare_class"})
F_ok  == FlightRow(Str(X_ab123), Str(X_svo), Str(X_t10), Str(X_t12), Num(150))
F_bad == FlightRow(Str(X_ZZ9), Str(X_svo), Str(X_t10), Str(X_t09), Num(150))
R_ok    == FareRow(Str(X_AB123), Str(X_econ), Num(100), Num(10))
R_unres == FareRow(Str(X_ZZ9), Str(X_econ), Num(-5), Num(10))

CsvFile(name, ok, rows) ==
    [name |-> name, ok |-> ok, first |-> "csv", sheets |-> [sh \in {"csv"} |-> rows]]

FileCatalogue ==
    {CsvFile(N_passengers, TRUE, rows) :
        rows \in {<<P_ok>>, <<P_ok, P_bad>>, <<P_nan, P_bad>>, <<P_noclass>>}}
    \cup {CsvFile(N_passengers, FALSE, <<>>),
          CsvFile(N_data, TRUE, <<P_ok>>),
          CsvFile(N_notes, TRUE, <<P_ok>>),
          CsvFile(N_flightscsv, TRUE, <<F_ok>>),
          [name |-> N_flights, ok |-> TRUE, first |-> "Flights",
           sheets |-> [Flights |-> <<F_ok, F_bad>>, Fares |-> <<R_ok, R_unres>>]],
          [name |-> N_flights, ok |-> TRUE, first |-> "Flights",
           sheets |-> [Flights |-> <<F_ok>>, Fares |-> <<R_ok>>]],
          [name |-> N_flights, ok |-> TRUE, first |-> "Flights",
           sheets |-> [Flights |-> <<F_ok>>]],
          [name |-> N_both, ok |-> TRUE, first |-> "Passengers",
           sheets |-> [Passengers |-> <<P_ok, P_bad>>, Flights |-> <<F_ok>>,
                       Fares |-> <<R_ok>>]]}

\* directory listings: at most n files with pairwise distinct names
RECURSIVE Directories(_)
Directories(n) ==
    IF n = 0 THEN {<<>>}
    ELSE LET shorter == Directories(n - 1)
         IN shorter \cup
            {Append(d, f) : d \in {x \in shorter : Len(x) = n - 1},
                            f \in FileCatalogue} 

DistinctNames(d) == \A i, j \in 1..Len(d) : i # j => d[i].name # d[j].name

StdDocTypes == CHOOSE d \in DocTypeTables : Cardinality(DOMAIN d) > 1

FileByName(name) == dir[CHOOSE i \in 1..Len(dir) : dir[i].name = name]
CurFile == FileByName(files[fidx])

\* the branch run_etl_pipeline takes for a file name
classify(file) ==
    IF str_contains(str_lower(file), KW_passenger) THEN "passengers"
    ELSE IF str_contains(str_lower(file), KW_flight) THEN "flights"
    ELSE "unknown"

\* d[key] = value
dict_set(d, key, value) == [k \in DOMAIN d \cup {key} |-> IF k = key THEN value ELSE d[k]]

FailedCreates == Len(SelectSeq(db.calls, LAMBDA c : ~c.ok))

\* answers of the collaborator to the creates of n rows, within the budget
RunOutcomes(n, failing) ==
    {o \in [1..n -> {"ok"} \cup failing] :
        FailedCreates + Cardinality({k \in 1..n : o[k] # "ok"}) <= MaxFailedCreates}

Init ==
    /\ pc = "idle" /\ kind = "none"
    /\ dir \in {d \in Directories(MaxFiles) : DistinctNames(d)}
    /\ files = <<>> /\ fidx = 0
    /\ stats = <<>> /\ reports = <<>> /\ final = None
    /\ raw = Unset /\ out = Unset /\ lres = Unset /\ fmap = <<>>
    /\ db = EmptyStore(StdDocTypes)

\* files = extractor.list_available_files(); if not files: return
ListFiles ==
    /\ pc = "idle"
    /\ files' = list_available_files(dir)
    /\ IF files' = <<>> THEN pc' = "done" /\ fidx' = fidx
       ELSE pc' = "loop" /\ fidx' = 1
    /\ UNCHANGED <<kind, dir, stats, raw, out, lres, fmap, db, reports, final>>

\* for file in files: if 'passenger' in file.lower(): self.process_passengers_file(file)
StartPassengers ==
    /\ pc = "loop" /\ fidx <= Len(files)
    /\ classify(files[fidx]) = "passengers"
    /\ pc' = "p_extract"
    /\ raw' = Unset /\ out' = Unset /\ lres' = Unset /\ fmap' = <<>>
    /\ UNCHANGED <<kind, dir, files, fidx, stats, db, reports, final>>

\* elif 'flight' in file.lower(): self.process_flights_file(file)
StartFlights ==
    /\ pc = "loop" /\ fidx <= Len(files)
    /\ classify(files[fidx]) = "flights"
    /\ pc' = "f_extract"
    /\ raw' = Unset /\ out' = Unset /\ lres' = Unset /\ fmap' = <<>>
    /\ UNCHANGED <<kind, dir, files, fidx, stats, db, reports, final>>

\* else: logger.warning("unknown file type")
SkipFile ==
    /\ pc = "loop" /\ fidx <= Len(files)
    /\ classify(files[fidx]) = "unknown"
    /\ fidx' = fidx + 1
    /\ UNCHANGED <<pc, kind, dir, files, stats, raw, out, lres, fmap, db, reports, final>>

\* the for-loop is exhausted
LoopDone ==
    /\ pc = "loop" /\ fidx > Len(files)
    /\ pc' = "visualize"
    /\ UNCHANGED <<kind, dir, files, fidx, stats, raw, out, lres, fmap, db, reports, final>>

\* self.db.commit() after a loader's row loop: the session commits, or
\* raises out of the loader
SessionOutcomes == {"ok", "SQLAlchemyError"}

\* process_passengers_file without its except clause: the exception leaves
\* run_etl_pipeline
PassengersFailed_propagates(exc) ==
    /\ stats' = stats
    /\ fidx' = fidx
    /\ pc' = "done"

\* except Exception as e: self.stats['passengers'] = {'error': str(e)}
PassengersFailed(exc) ==
    /\ stats' = dict_set(stats, "passengers", [error |-> exc])
    /\ fidx' = fidx + 1
    /\ pc' = "loop"

\* the except clause of process_flights_file marking the fares entry only
FlightsFailed_faresonly(exc) ==
    /\ stats' = dict_set(stats, "fares", [error |-> exc])
    /\ fidx' = fidx + 1
    /\ pc' = "loop"

\* except Exception as e: self.stats['flights'] = ...; self.stats['fares'] = ...
FlightsFailed(exc) ==
    /\ stats' = dict_set(dict_set(stats, "flights", [error |-> exc]), "fares", [error |-> exc])
    /\ fidx' = fidx + 1
    /\ pc' = "loop"

\* raw_data = extractor.extract_passengers_data(file_path)
PExtract ==
    /\ pc = "p_extract"
    /\ LET r == extract_passengers_data(CurFile)
       IN IF r.raised
          THEN PassengersFailed(r.exc) /\ UNCHANGED raw
          ELSE /\ raw' = [raw EXCEPT !.passengers = r.df]
               /\ pc' = "p_transform"
               /\ UNCHANGED <<stats, fidx>>
    /\ UNCHANGED <<kind, dir, files, out, lres, fmap, db, reports, final>>

\* valid_data, errors_data = transformer.transform_passenger_data(raw_data)
PTransform ==
    /\ pc = "p_transform"
    /\ LET r == transform_passenger_data(raw.passengers)
       IN IF r.raised
          THEN PassengersFailed(r.exc) /\ UNCHANGED out
          ELSE /\ out' = [out EXCEPT !.passengers = r]
               /\ pc' = "p_load"
               /\ UNCHANGED <<stats, fidx>>
    /\ UNCHANGED <<kind, dir, files, raw, lres, fmap, db, reports, final>>

\* load_stats = loader.load_passenger_data(valid_data, file_path)
PLoad ==
    /\ pc = "p_load"
    /\ \E o \in RunOutcomes(Len(out.passengers.valid), {"passenger_fails", "document_fails"}) :
         LET r == load_passenger_data(out.passengers.valid, o, db)
         IN /\ db' = r.db
            /\ \E session \in SessionOutcomes :
                  IF session = "ok"
                  THEN /\ lres' = [lres EXCEPT !.passengers = r.stats]
                       /\ pc' = "p_report"
                       /\ UNCHANGED <<stats, fidx>>
                  ELSE PassengersFailed(session) /\ UNCHANGED lres
    /\ UNCHANGED <<kind, dir, files, raw, out, fmap, reports, final>>

\* if not errors_data.empty: loader.save_errors_report(errors_data, file_path, feed);
\* continues at pc `next`, or in the except clause when the write raises
ReportStep(feed, next) ==
    IF out[feed].errors = <<>>
    THEN pc' = next /\ UNCHANGED <<reports, stats, fidx>>
    ELSE \E w \in {"ok", "csv_fails", "json_fails"} :
            LET r == save_errors_report(reports, out[feed].errors, files[fidx], feed, w)
            IN /\ reports' = r.reports
               /\ IF r.raised
                  THEN IF feed = "passengers" THEN PassengersFailed(r.exc)
                                              ELSE FlightsFailed(r.exc)
                  ELSE pc' = next /\ UNCHANGED <<stats, fidx>>

PReport ==
    /\ pc = "p_report"
    /\ ReportStep("passengers", "p_stats")
    /\ UNCHANGED <<kind, dir, files, raw, out, lres, fmap, db, final>>

\* self.stats['passengers'] = {...}
PStats ==
    /\ pc = "p_stats"
    /\ stats' = dict_set(stats, "passengers",
                    feed_stats(raw.passengers, out.passengers.valid, out.passengers.errors,
                               lres.passengers))
    /\ fidx' = fidx + 1
    /\ pc' = "loop"
    /\ UNCHANGED <<kind, dir, files, raw, out, lres, fmap, db, reports, final>>

\* raw_flights = extractor.extract_flights_data(file_path, 'Flights')
FExtract ==
    /\ pc = "f_extract"
    /\ LET r == extract_flights_data(CurFile)
       IN IF r.raised
          THEN FlightsFailed(r.exc) /\ UNCHANGED raw
          ELSE /\ raw' = [raw EXCEPT !.flights = r.df]
               /\ pc' = "f_transform"
               /\ UNCHANGED <<stats, fidx>>
    /\ UNCHANGED <<kind, dir, files, out, lres, fmap, db, reports, final>>

\* valid_flights, errors_flights = transformer.transform_flight_data(raw_flights)
FTransform ==
    /\ pc = "f_transform"
    /\ LET r == transform_flight_data(raw.flights)
       IN IF r.raised
          THEN FlightsFailed(r.exc) /\ UNCHANGED out
          ELSE /\ out' = [out EXCEPT !.flights = r]
               /\ pc' = "f_load"
               /\ UNCHANGED <<stats, fidx>>
    /\ UNCHANGED <<kind, dir, files, raw, lres, fmap, db, reports, final>>

\* FLoad handing on the flight_mapping as it was before the load
FLoad_stalemap ==
    /\ pc = "f_load"
    /\ \E o \in RunOutcomes(Len(out.flights.valid), {"fails"}) :
         LET r == load_flight_data(out.flights.valid, o, db)
         IN /\ db' = r.db
            /\ \E session \in SessionOutcomes :
                  IF session = "ok"
                  THEN /\ lres' = [lres EXCEPT !.flights = r.stats]
                       /\ pc' = "f_report"
                       /\ UNCHANGED <<stats, fidx>>
                  ELSE FlightsFailed(session) /\ UNCHANGED lres
    /\ UNCHANGED <<kind, dir, files, raw, out, fmap, reports, final>>

\* load_stats_flights, flight_mapping = loader.load_flight_data(valid_flights, file_path)
FLoad ==
    /\ pc = "f_load"
    /\ \E o \in RunOutcomes(Len(out.flights.valid), {"fails"}) :
         LET r == load_flight_data(out.flights.valid, o, db)
         IN /\ db' = r.db
            /\ \E session \in SessionOutcomes :
                  IF session = "ok"
                  THEN /\ lres' = [lres EXCEPT !.flights = r.stats]
                       /\ fmap' = r.flight_mapping
                       /\ pc' = "f_report"
                       /\ UNCHANGED <<stats, fidx>>
                  ELSE FlightsFailed(session) /\ UNCHANGED <<lres, fmap>>
    /\ UNCHANGED <<kind, dir, files, raw, out, reports, final>>

FReport ==
    /\ pc = "f_report"
    /\ ReportStep("flights", "r_extract")
    /\ UNCHANGED <<kind, dir, files, raw, out, lres, fmap, db, final>>

\* raw_fares = extractor.extract_fares_data(file_path, 'Fares')
RExtract ==
    /\ pc = "r_extract"
    /\ LET r == extract_fares_data(CurFile)
       IN IF r.raised
          THEN FlightsFailed(r.exc) /\ UNCHANGED raw
          ELSE /\ raw' = [raw EXCEPT !.fares = r.df]
               /\ pc' = "r_transform"
               /\ UNCHANGED <<stats, fidx>>
    /\ UNCHANGED <<kind, dir, files, out, lres, fmap, db, reports, final>>

\* valid_fares, errors_fares = transformer_fares.transform_fare_data(raw_fares, flight_mapping)
RTransform ==
    /\ pc = "r_transform"
    /\ LET r == transform_fare_data(raw.fares, fmap)
       IN IF r.raised
          THEN FlightsFailed(r.exc) /\ UNCHANGED out
          ELSE /\ out' = [out EXCEPT !.fares = r]
               /\ pc' = "r_load"
               /\ UNCHANGED <<stats, fidx>>
    /\ UNCHANGED <<kind, dir, files, raw, lres, fmap, db, reports, final>>

\* load_stats_fares = loader_fares.load_fare_data(valid_fares, flight_mapping, file_path)
RLoad ==
    /\ pc = "r_load"
    /\ \E o \in RunOutcomes(Len(out.fares.valid), {"fails"}) :
         LET r == load_fare_data(out.fares.valid, fmap, o, db)
         IN /\ db' = r.db
            /\ \E session \in SessionOutcomes :
                  IF session = "ok"
                  THEN /\ lres' = [lres EXCEPT !.fares = r.stats]
                       /\ pc' = "r_report"
                       /\ UNCHANGED <<stats, fidx>>
                  ELSE FlightsFailed(session) /\ UNCHANGED lres
    /\ UNCHANGED <<kind, dir, files, raw, out, fmap, reports, final>>

RReport ==
    /\ pc = "r_report"
    /\ ReportStep("fares", "f_stats")
    /\ UNCHANGED <<kind, dir, files, raw, out, lres, fmap, db, final>>

\* self.stats['flights'] = {...}; self.stats['fares'] = {...}
FStats ==
    /\ pc = "f_stats"
    /\ stats' = dict_set(
                    dict_set(stats, "flights",
                        feed_stats(raw.flights, out.flights.valid, out.flights.errors,
                                   lres.flights)),
                    "fares",
                    feed_stats(raw.fares, out.fares.valid, out.fares.errors, lres.fares))
    /\ fidx' = fidx + 1
    /\ pc' = "loop"
    /\ UNCHANGED <<kind, dir, files, raw, out, lres, fmap, db, reports, final>>

\* self._create_visualizations(): the dashboard is drawn by the visualization
\* collaborator, every exception of which is caught and logged
CreateVisualizations ==
    /\ pc = "visualize"
    /\ pc' = "report"
    /\ UNCHANGED <<kind, dir, files, fidx, stats, raw, out, lres, fmap, db, reports, final>>

\* self._save_final_report(): a failed write is caught and logged
SaveFinalReport ==
    /\ pc = "report"
    /\ \E ok \in BOOLEAN :
         final' = IF ok THEN [t |-> "written", statistics |-> stats,
                              summary |-> _generate_summary(stats)]
                  ELSE [t |-> "failed"]
    /\ pc' = "done"
    /\ UNCHANGED <<kind, dir, files, fidx, stats, raw, out, lres, fmap, db, reports>>

Next ==
    \/ ListFiles \/ StartPassengers \/ StartFlights \/ SkipFile \/ LoopDone
    \/ PExtract \/ PTransform \/ PLoad \/ PReport \/ PStats
    \/ FExtract \/ FTransform \/ FLoad \/ FReport
    \/ RExtract \/ RTransform \/ RLoad \/ RReport \/ FStats
    \/ CreateVisualizations \/ SaveFinalReport

Spec == Init /\ [][Next]_vars

\* run_etl_pipeline is one synchronous call: it keeps running until it returns
FairSpec == Spec /\ WF_vars(Next)

(***************************************************************************)
(* Properties of the pipeline run (checked under Spec / FairSpec)          *)
(***************************************************************************)
IsErrorEntry(entry) == "error" \in DOMAIN entry

\* create calls of one kind received by the store, in order
CallsOf(op) == SelectSeq(db.calls, LAMBDA c : c.op = op)

\* C3: every successfully processed feed's total_processed equals the number
\* of non-empty rows read, valid_records + error_records, and the summary's
\* success_rate is below 100 whenever a transformer rejected a row.
C3_TotalProcessedCountsAllRows ==
    /\ \A f \in DOMAIN stats :
          ~IsErrorEntry(stats[f]) =>
              stats[f].total_processed = stats[f].valid_records + stats[f].error_records
    /\ (final.t = "written" /\ final.summary.total_errors > 0) =>
          final.summary.success_rate < 10000

\* C4: every invocation of run_etl_pipeline that has returned has written a
\* final run report, whatever the input (no candidate files included).
C4_AlwaysFinalReport == pc = "done" => final.t = "written"

\* a rejection report of feed f for the file being processed
HasReport(f) ==
    \E i \in 1..Len(reports) :
        reports[i].source_file = files[fidx] /\ reports[i].process_type = f

\* the control position right after the report step of feed f
AfterReport(f) ==
    CASE f = "passengers" -> pc = "p_stats"
      [] f = "flights"    -> pc = "r_extract"
      [] OTHER            -> pc = "f_stats"

\* C5: after a feed's report step a rejection report exists
\* whenever the feed has a rejected row or a creation error.
C5_ReportOnAnyError ==
    \A f \in Feeds :
        (AfterReport(f) /\ (out[f].errors # <<>> \/ lres[f].errors # <<>>)) => HasReport(f)

\* C6: a failure while writing a rejection report is logged only: no feed's
\* stats entry is replaced by the error marker of a failed report write, and
\* the fare stage still runs after a failed flight report.
C6_ReportFailureNotFatal ==
    \A f \in DOMAIN stats : IsErrorEntry(stats[f]) => stats[f].error # "OSError"

\* C8: a file is processed as a feed only on an unambiguous keyword: its
\* lower-cased name contains exactly one of 'passenger' and 'flight'.
C8_UnambiguousClassification ==
    pc \notin {"idle", "loop", "visualize", "report", "done"} =>
        LET name == str_lower(files[fidx])
        IN str_contains(name, KW_passenger) # str_contains(name, KW_flight)

\* control positions inside process_passengers_file / process_flights_file
PassengerStages == {"p_extract", "p_transform", "p_load", "p_report", "p_stats"}
FlightStages == {"f_extract", "f_transform", "f_load", "f_report",
                 "r_extract", "r_transform", "r_load", "r_report", "f_stats"}

\* C14: a file whose processing raises at any stage (extract, transform,
\* load, report) leaves an error entry in the stats of its feed(s) and the
\* loop goes on: every file of the list is taken up in turn, the run leaves
\* the loop only when the list is exhausted, and the final report step runs.
C14_FailedFileDoesNotAbort ==
    [][/\ pc \in PassengerStages =>
            /\ pc' \in PassengerStages \cup {"loop"}
            /\ pc' = "loop" =>
                  /\ fidx' = fidx + 1 /\ files' = files
                  /\ pc # "p_stats" => IsErrorEntry(stats'.passengers)
       /\ pc \in FlightStages =>
            /\ pc' \in FlightStages \cup {"loop"}
            /\ pc' = "loop" =>
                  /\ fidx' = fidx + 1 /\ files' = files
                  /\ pc # "f_stats" =>
                        IsErrorEntry(stats'.flights) /\ IsErrorEntry(stats'.fares)
       /\ (pc = "loop" /\ fidx <= Len(files)) =>
            \/ pc' = "p_extract" /\ classify(files[fidx]) = "passengers" /\ fidx' = fidx
            \/ pc' = "f_extract" /\ classify(files[fidx]) = "flights" /\ fidx' = fidx
            \/ pc' = "loop" /\ classify(files[fidx]) = "unknown" /\ fidx' = fidx + 1
       /\ pc' = "visualize" => pc = "loop" /\ fidx = Len(files) + 1
       /\ (pc' = "done" /\ files' # <<>>) => pc = "report" /\ final'.t # "none"
      ]_vars

\* a run that returned after its first file failed and a later file was
\* processed to the end
W_C14 ==
    /\ pc = "done" /\ Len(files) >= 2 /\ final.t = "written"
    /\ \E f, g \in DOMAIN stats : IsErrorEntry(stats[f]) /\ ~IsErrorEntry(stats[g])

\* the records of the rows of the feed's frame that its validator accepted
\* and its _transform_valid_* turned into a record
ValidatedRecords(f) ==
    CASE f = "passengers" ->
            {_transform_valid_passenger(clean_columns(raw[f][k].row, PASSENGER_TEXT_COLUMNS)).rec :
                k \in {j \in 1..Len(raw[f]) :
                    /\ validate_passenger_row(
                           clean_columns(raw[f][j].row, PASSENGER_TEXT_COLUMNS)).ok
                    /\ ~_transform_valid_passenger(
                           clean_columns(raw[f][j].row, PASSENGER_TEXT_COLUMNS)).raised}}
      [] f = "flights" ->
            {_transform_valid_flight(clean_columns(raw[f][k].row, FLIGHT_TEXT_COLUMNS)) :
                k \in {j \in 1..Len(raw[f]) :
                    validate_flight_row(clean_columns(raw[f][j].row, FLIGHT_TEXT_COLUMNS)).ok}}
      [] OTHER ->
            {_transform_valid_fare(
                 clean_columns(raw[f][k].row, {"fare_class", "fare_conditions"}), fmap).rec :
                k \in {j \in 1..Len(raw[f]) :
                    /\ _validate_fare_row(
                           clean_columns(raw[f][j].row, {"fare_class", "fare_conditions"}),
                           fmap) = <<>>
                    /\ ~_transform_valid_fare(
                           clean_columns(raw[f][j].row, {"fare_class", "fare_conditions"}),
                           fmap).raised}}

\* the feed a create operation belongs to, and the stage that may call it
CreateFeed ==
    [create_passenger |-> "passengers", create_flight |-> "flights", create_fare |-> "fares"]
LoadStage == [passengers |-> "p_load", flights |-> "f_load", fares |-> "r_load"]
ReportStage == [passengers |-> "p_report", flights |-> "f_report", fares |-> "r_report"]

\* the input indices of the rows of an error frame, in order
ErrorIndices(errors) == [i \in 1..Len(errors) |-> errors[i]._original_index]

\* C18: no rejected row is passed to a persistence create operation: every
\* create_passenger, create_flight or create_fare call is made by the feed's
\* loader with the record of a row its validator accepted, and a rejection
\* report lists exactly the rows of the feed's error frame.
C18_RejectedNeverCreated ==
    [][/\ \A i \in 1..Len(db.calls) : db'.calls[i] = db.calls[i]
       /\ \A i \in (Len(db.calls) + 1)..Len(db'.calls) :
             db'.calls[i].op \in DOMAIN CreateFeed =>
                 /\ pc = LoadStage[CreateFeed[db'.calls[i].op]]
                 /\ db'.calls[i].data \in ValidatedRecords(CreateFeed[db'.calls[i].op])
       /\ reports' # reports =>
             \E f \in Feeds :
                 /\ pc = ReportStage[f]
                 /\ Len(reports') = Len(reports) + 1
                 /\ reports'[Len(reports')].process_type = f
                 /\ reports'[Len(reports')].rows = ErrorIndices(out[f].errors)
                 /\ \A i \in 1..Len(out[f].errors) :
                       out[f].errors[i]._errors # <<>>
      ]_vars

\* a fare load that made a create call while the sheet had a rejected row
W_C18 ==
    /\ pc = "r_report"
    /\ out.fares.errors # <<>>
    /\ Len(CallsOf("create_fare")) >= 1
    /\ Len(CallsOf("create_fare")) <= Len(out.fares.valid)

\* the last n elements of a sequence
LastN(q, n) == SubSeq(q, Len(q) - n + 1, Len(q))

\* the flight map a sequence of create_flight calls stands for: the numbers
\* of the flights created, each with the identifier of its last created flight
FlightMapOf(calls) ==
    [n \in {calls[i].data.flight_number : i \in {j \in 1..Len(calls) : calls[j].ok}} |->
        calls[CHOOSE i \in 1..Len(calls) :
                 /\ calls[i].ok /\ calls[i].data.flight_number = n
                 /\ \A j \in (i + 1)..Len(calls) :
                        ~(calls[j].ok /\ calls[j].data.flight_number = n)].id]

FareStages == {"r_extract", "r_transform", "r_load", "r_report"}

\* C11: in process_flights_file the fare stage starts only after the flight
\* load of the same file has returned; fares are transformed and created only
\* in the fare stage; create_flight is called only by the flight load; and
\* during the whole fare stage the flight map is the complete map of that
\* file's flight load, unmodified.
C11_FlightsLoadedBeforeFares ==
    [][/\ pc' = "r_extract" => pc = "f_report"
       /\ pc' = "f_report" => pc = "f_load"
       /\ (out'.fares # out.fares /\ out'.fares # None) => pc = "r_transform"
       /\ CallsOf("create_fare")' # CallsOf("create_fare") => pc = "r_load"
       /\ CallsOf("create_flight")' # CallsOf("create_flight") => pc = "f_load"
       /\ pc \in FareStages =>
             /\ fmap' = fmap
             /\ fmap = FlightMapOf(LastN(CallsOf("create_flight"), Len(out.flights.valid)))
      ]_vars

\* the fare stage of a file has created a fare under the non-empty flight map
\* of the file's flight load
W_C11 ==
    /\ pc = "r_report"
    /\ fmap # <<>> /\ lres.flights.flights_created >= 1
    /\ Len(CallsOf("create_fare")) >= 1

(***************************************************************************)
(* Properties of the transformers and loaders (checked under SpecT)        *)
(***************************************************************************)
\* the transformer of feed f has returned its (valid, errors) pair
Returned(f) == kind = f /\ pc \in {"t_transformed", "t_loaded"}

\* the transformer of feed f has run (returned or raised)
Ran(f) == kind = f /\ pc \in {"t_transformed", "t_raised", "t_loaded"}

\* _original_index values of the rejected rows
RejectedIdx(o) == {o.errors[i]._original_index : i \in 1..Len(o.errors)}

\* the rejected record of input row k
RejectedAt(o, k) == o.errors[CHOOSE i \in 1..Len(o.errors) : o.errors[i]._original_index = k]

\* position in the accepted output of the input row k, when k is not rejected
Rank(o, k) == Cardinality({j \in 1..k : j \notin RejectedIdx(o)})

HasError(rec, tag) == \E i \in 1..Len(rec._errors) : rec._errors[i].e = tag

\* number of elements of a sequence that satisfy / fail the `ok` flag
OkCount(calls) == Cardinality({i \in 1..Len(calls) : calls[i].ok})
FailCount(calls) == Cardinality({i \in 1..Len(calls) : ~calls[i].ok})

\* the records handed to the create calls, in call order
DataOf(calls) == [i \in 1..Len(calls) |-> calls[i].data]

\* passengers created whose document type code is not in the store's table
UnknownTypeCount(calls) ==
    Cardinality({i \in 1..Len(calls) :
                    calls[i].ok /\ calls[i].data.document_type \notin DOMAIN db.doc_types})

\* a loader of the flight / fare kind attempted every accepted record in
\* order, and recorded one error for each failed create
BatchAttempted(calls, valid, st, created) ==
    /\ DataOf(calls) = valid
    /\ Len(st.errors) = FailCount(calls)
    /\ created = OkCount(calls)

\* C12: in each loader a failed create is caught, exactly one error is
\* appended for it, and every later record is still attempted: the create
\* attempts are the accepted records, all of them and in order, whatever
\* number of creates fail.
C12_FailedCreateDoesNotAbort ==
    pc = "t_loaded" =>
        CASE kind = "flights" ->
                BatchAttempted(CallsOf("create_flight"), out.flights.valid, lres.flights,
                               lres.flights.flights_created)
          [] kind = "fares" ->
                BatchAttempted(CallsOf("create_fare"), out.fares.valid, lres.fares,
                               lres.fares.fares_created)
          [] OTHER ->
                /\ DataOf(CallsOf("create_passenger")) = out.passengers.valid
                /\ lres.passengers.passengers_created = OkCount(CallsOf("create_passenger"))
                /\ lres.passengers.documents_created
                       = OkCount(CallsOf("create_passenger_document"))
                /\ Len(lres.passengers.errors)
                       = FailCount(CallsOf("create_passenger"))
                         + FailCount(CallsOf("create_passenger_document"))
                         + UnknownTypeCount(CallsOf("create_passenger"))

\* a fare load whose first create failed and whose second was still attempted
W_C12 ==
    /\ pc = "t_loaded" /\ kind = "fares"
    /\ Len(CallsOf("create_fare")) >= 2
    /\ ~CallsOf("create_fare")[1].ok /\ CallsOf("create_fare")[2].ok

\* the create_passenger calls that succeeded for a passenger whose document
\* type code is not in the store's table
UnknownTypeCalls(calls) ==
    {i \in 1..Len(calls) :
        calls[i].ok /\ calls[i].data.document_type \notin DOMAIN db.doc_types}

\* no document call, successful or not, names the passenger
NoDocumentFor(id) ==
    \A j \in 1..Len(CallsOf("create_passenger_document")) :
        CallsOf("create_passenger_document")[j].data.passenger_id # id

UnknownTypeErrors(errors) ==
    Cardinality({i \in 1..Len(errors) : errors[i].e = "unknown_document_type"})

\* C13: a passenger whose document_type code is not in the document-type
\* table is still created and counted in passengers_created, gets no
\* document, adds exactly one error, and the rows after it are attempted.
C13_UnknownDocumentType ==
    (pc = "t_loaded" /\ kind = "passengers") =>
        /\ \A i \in UnknownTypeCalls(CallsOf("create_passenger")) :
               NoDocumentFor(CallsOf("create_passenger")[i].id)
        /\ lres.passengers.passengers_created
               = Cardinality({i \in 1..Len(CallsOf("create_passenger")) :
                                 CallsOf("create_passenger")[i].ok})
        /\ UnknownTypeErrors(lres.passengers.errors)
               = Cardinality(UnknownTypeCalls(CallsOf("create_passenger")))
        /\ Len(CallsOf("create_passenger")) = Len(out.passengers.valid)

\* a passenger of unknown document type was created and the next row attempted
W_C13 ==
    /\ pc = "t_loaded" /\ kind = "passengers"
    /\ 1 \in UnknownTypeCalls(CallsOf("create_passenger"))
    /\ Len(CallsOf("create_passenger")) >= 2
    /\ lres.passengers.passengers_created >= 1

Present(row, col) == col \in DOMAIN row /\ ~isna(row[col])

\* a fare row whose fare_class, price and available_seats are acceptable
FareRestValid(row) ==
    /\ Present(row, "fare_class") /\ Present(row, "price") /\ Present(row, "available_seats")
    /\ py_float(row["price"]).ok /\ py_float(row["price"]).v >= 0
    /\ py_int(row["available_seats"]).ok /\ py_int(row["available_seats"]).v >= 0

\* C1: a fare row whose flight number differs from a loaded flight's number
\* only by letter case is accepted, and its flight_id is the identifier the
\* flight map holds for the upper-cased number.
C1_CaseInsensitiveFlight ==
    Returned("fares") =>
        \A k \in 1..Len(raw.fares) :
            LET row == raw.fares[k].row
                key == str_upper(clean_text(row_get(row, "flight_number", Str(<<>>))))
            IN (key \in DOMAIN fmap /\ FareRestValid(row)) =>
                   /\ k \notin RejectedIdx(out.fares)
                   /\ out.fares.valid[Rank(out.fares, k)].flight_id = fmap[key]

\* C2: an otherwise valid passenger row whose email / phone_number cell is
\* blank or whose column is absent is accepted.
PassengerRestValid(row) ==
    /\ \A i \in 1..Len(PASSENGER_REQUIRED_FIELDS) :
          /\ Present(row, PASSENGER_REQUIRED_FIELDS[i])
          /\ clean_text(row[PASSENGER_REQUIRED_FIELDS[i]]) # <<>>
    /\ strptime(py_str(row["date_of_birth"]), "%Y-%m-%d").ok
    /\ Present(row, "expiry_date") =>
          LET e == strptime(py_str(row["expiry_date"]), "%Y-%m-%d")
          IN e.ok /\ time_less(TODAY, e.v)

BlankOrValid(row) ==
    /\ ~Present(row, "email") \/ email_match(clean_text(row["email"]))
    /\ ~Present(row, "phone_number") \/ phone_match(clean_text(row["phone_number"]))

C2_BlankEmailPhoneAccepted ==
    Returned("passengers") =>
        \A k \in 1..Len(raw.passengers) :
            LET row == raw.passengers[k].row
            IN (PassengerRestValid(row) /\ BlankOrValid(row)) =>
                   k \notin RejectedIdx(out.passengers)

\* C7: a fare row is rejected whenever flight_number, fare_class, price or
\* available_seats is missing (column absent or cell empty), and no fare with
\* an empty fare_class is handed to the fare loader.
C7_FareRequiredFields ==
    Returned("fares") =>
        /\ \A k \in 1..Len(raw.fares) :
              (\E i \in 1..Len(FARE_REQUIRED) : ~Present(raw.fares[k].row, FARE_REQUIRED[i]))
                  => k \in RejectedIdx(out.fares)
        /\ \A i \in 1..Len(out.fares.valid) : out.fares.valid[i].fare_class # <<>>
        /\ \A i \in 1..Len(CallsOf("create_fare")) :
              CallsOf("create_fare")[i].data.fare_class # <<>>

\* the outcome of the transformer's loop body on input row k of feed f
RowStep(f, k) ==
    CASE f = "passengers" -> passenger_row(raw[f][k].index, raw[f][k].row)
      [] f = "flights"    -> flight_row(raw[f][k].index, raw[f][k].row)
      [] OTHER            -> fare_row(raw[f][k].index, raw[f][k].row, fmap)

\* C9: every input row of a transformer lands in exactly one of its two
\* outputs: len(valid) + len(errors) = len(input), the rejected rows carry
\* pairwise distinct input indices, each rejected row has a non-empty error
\* list, and the accepted rows are, in order, the transformed rows of exactly
\* the input indices that are not rejected.
AcceptedAs(o, rank, step) ==
    step.res = "valid" /\ rank \in 1..Len(o.valid) /\ o.valid[rank] = step.rec

Partitioned(f, o, n, rejected) ==
    /\ Len(o.valid) + Len(o.errors) = n
    /\ rejected \subseteq 1..n
    /\ \A i, j \in 1..Len(o.errors) :
          i # j => o.errors[i]._original_index # o.errors[j]._original_index
    /\ \A i \in 1..Len(o.errors) : o.errors[i]._errors # <<>>
    /\ \A k \in (1..n) \ rejected :
          AcceptedAs(o, Cardinality({j \in 1..k : j \notin rejected}), RowStep(f, k))

Unresolved(row) ==
    LET fn == clean_text(row_get(row, "flight_number", Str(<<>>)))
    IN fn # <<>> /\ fn \notin DOMAIN fmap

C10_UnresolvedFareRejected ==
    Ran("fares") =>
        LET o == out.fares
            created == CallsOf("create_fare")
        IN /\ \A k \in 1..Len(raw.fares) :
                 Unresolved(raw.fares[k].row) =>
                     /\ o.at # k
                     /\ (~o.raised \/ k < o.at) =>
                            /\ k \in RejectedIdx(o)
                            /\ HasError(RejectedAt(o, k), "flight_not_found")
           /\ IF pc = "t_loaded"
              THEN /\ [i \in 1..Len(created) |-> created[i].data] = o.valid
                   /\ \A i \in 1..Len(created) :
                         \E n \in DOMAIN fmap : fmap[n] = created[i].data.flight_id
              ELSE created = <<>>

\* the fare loader ran on a sheet with an unresolved (rejected) row and an accepted row
W_C10 ==
    /\ kind = "fares" /\ pc = "t_loaded"
    /\ \E k \in 1..Len(raw.fares) :
          Unresolved(raw.fares[k].row) /\ k \in RejectedIdx(out.fares)
    /\ Len(CallsOf("create_fare")) >= 1

\* both timestamps of the row parse and the arrival is not after the departure
ArrivalNotAfterDeparture(row) ==
    /\ "scheduled_departure" \in DOMAIN row /\ "scheduled_arrival" \in DOMAIN row
    /\ strptime(py_str(row["scheduled_departure"]), DATETIME_FORMAT).ok
    /\ strptime(py_str(row["scheduled_arrival"]), DATETIME_FORMAT).ok
    /\ ~time_less(strptime(py_str(row["scheduled_departure"]), DATETIME_FORMAT).v,
                  strptime(py_str(row["scheduled_arrival"]), DATETIME_FORMAT).v)

\* C15: a flight row whose scheduled_arrival is less than or equal to its
\* scheduled_departure is rejected by validate_flight_row, with the
\* arrival-after-departure error, whatever its other fields are (valid or
\* invalid, present or missing): the validator does not raise on it.
C15_ArrivalNotAfterDepartureRejected ==
    Ran("flights") =>
        \A k \in 1..Len(raw.flights) :
            ArrivalNotAfterDeparture(raw.flights[k].row) =>
                /\ out.flights.at # k
                /\ (~out.flights.raised \/ k < out.flights.at) =>
                       /\ k \in RejectedIdx(out.flights)
                       /\ HasError(RejectedAt(out.flights, k), "arrival_not_after_departure")

\* the row has an expiry_date that parses as a date on or before today
ExpiresByToday(row) ==
    /\ "expiry_date" \in DOMAIN row /\ row["expiry_date"].t = "str"
    /\ strptime(py_str(row["expiry_date"]), "%Y-%m-%d").ok
    /\ ~time_less(TODAY, strptime(py_str(row["expiry_date"]), "%Y-%m-%d").v)

\* C16: a passenger row whose expiry_date is present and equal to the current
\* date, or any date on or before it, is rejected with the document-expired
\* error: the expiry check is strictly-after-today.
C16_ExpiryTodayRejected ==
    Ran("passengers") =>
        \A k \in 1..Len(raw.passengers) :
            ExpiresByToday(raw.passengers[k].row) =>
                /\ out.passengers.at # k
                /\ (~out.passengers.raised \/ k < out.passengers.at) =>
                       /\ k \in RejectedIdx(out.passengers)
                       /\ HasError(RejectedAt(out.passengers, k), "document_expired")

\* a row expiring today was rejected for that reason alone
W_C16 ==
    /\ Returned("passengers")
    /\ \E k \in 1..Len(raw.passengers) :
          /\ raw.passengers[k].row["expiry_date"] = Str(X_today)
          /\ k \in RejectedIdx(out.passengers)
          /\ RejectedAt(out.passengers, k)._errors
                 = <<Err("document_expired", <<"expiry_date">>)>>

\* the row's price converts to a number below zero
NegativePrice(row) ==
    /\ "price" \in DOMAIN row
    /\ py_float(row["price"]).ok /\ ~py_float(row["price"]).nan
    /\ py_float(row["price"]).v < 0

\* C17: a fare row whose price is negative is rejected by transform_fare_data
\* with the negative-price error, whatever its other fields are, and no
\* create_fare call carries a negative price.
C17_NegativePriceRejected ==
    Ran("fares") =>
        /\ \A k \in 1..Len(raw.fares) :
              NegativePrice(raw.fares[k].row) =>
                  /\ out.fares.at # k
                  /\ (~out.fares.raised \/ k < out.fares.at) =>
                         /\ k \in RejectedIdx(out.fares)
                         /\ HasError(RejectedAt(out.fares, k), "negative_price")
        /\ \A i \in 1..Len(CallsOf("create_fare")) :
              CallsOf("create_fare")[i].data.price >= 0

\* the fare loader ran after a row was rejected for its negative price alone
W_C17 ==
    /\ pc = "t_loaded" /\ kind = "fares"
    /\ Len(CallsOf("create_fare")) >= 1
    /\ \E k \in 1..Len(raw.fares) :
          /\ NegativePrice(raw.fares[k].row)
          /\ k \in RejectedIdx(out.fares)
          /\ RejectedAt(out.fares, k)._errors = <<Err("negative_price", <<"price">>)>>

\* the rules of validate_passenger_row that a cleaned row violates
PassengerRules ==
    {"missing_fields", "bad_date_of_birth", "bad_email", "bad_phone", "bad_expiry_date",
     "document_expired"}

Violates(c, rule) ==
    CASE rule = "missing_fields" ->
            \E i \in 1..Len(PASSENGER_REQUIRED_FIELDS) :
                \/ PASSENGER_REQUIRED_FIELDS[i] \notin DOMAIN c
                \/ isna(c[PASSENGER_REQUIRED_FIELDS[i]])
                \/ str_strip(py_str(c[PASSENGER_REQUIRED_FIELDS[i]])) = <<>>
      [] rule = "bad_date_of_birth" ->
            /\ "date_of_birth" \in DOMAIN c /\ ~isna(c["date_of_birth"])
            /\ ~strptime(py_str(c["date_of_birth"]), "%Y-%m-%d").ok
      [] rule = "bad_email" ->
            "email" \in DOMAIN c /\ ~isna(c["email"]) /\ ~email_match(py_str(c["email"]))
      [] rule = "bad_phone" ->
            /\ "phone_number" \in DOMAIN c /\ ~isna(c["phone_number"])
            /\ ~phone_match(py_str(c["phone_number"]))
      [] rule = "bad_expiry_date" ->
            /\ "expiry_date" \in DOMAIN c /\ py_truthy(c["expiry_date"])
            /\ ~isna(c["expiry_date"])
            /\ ~strptime(py_str(c["expiry_date"]), "%Y-%m-%d").ok
      [] OTHER ->
            /\ "expiry_date" \in DOMAIN c /\ py_truthy(c["expiry_date"])
            /\ ~isna(c["expiry_date"])
            /\ \/ ~strptime(py_str(c["expiry_date"]), "%Y-%m-%d").ok
               \/ ~time_less(TODAY, strptime(py_str(c["expiry_date"]), "%Y-%m-%d").v)

Violated(c) == {rule \in PassengerRules : Violates(c, rule)}

\* the error list names exactly the rules of the set, each once
NamesExactly(errors, rules) ==
    /\ Len(errors) = Cardinality(rules)
    /\ \A rule \in rules : \E i \in 1..Len(errors) : errors[i].e = rule

\* C19: validate_passenger_row evaluates every check on every row and
\* returns all applicable errors, not only the first: the error list of a
\* rejected row has one entry for each rule the row violates, and a row is
\* accepted iff it violates no rule.
C19_AllErrorsAccumulated ==
    (kind = "passengers" /\ pc = "t_transformed") =>
        \A k \in 1..Len(raw.passengers) :
            IF k \in RejectedIdx(out.passengers)
            THEN /\ Violated(RejectedAt(out.passengers, k).row) # {}
                 /\ NamesExactly(RejectedAt(out.passengers, k)._errors,
                                 Violated(RejectedAt(out.passengers, k).row))
            ELSE Violated(clean_columns(raw.passengers[k].row, PASSENGER_TEXT_COLUMNS)) = {}

\* a rejected row with a missing last_name, a malformed email and a
\* malformed phone number, carrying the three errors
W_C19 ==
    /\ kind = "passengers" /\ pc = "t_transformed"
    /\ \E k \in RejectedIdx(out.passengers) :
          /\ Len(RejectedAt(out.passengers, k)._errors) >= 3
          /\ HasError(RejectedAt(out.passengers, k), "missing_fields")
          /\ HasError(RejectedAt(out.passengers, k), "bad_email")
          /\ HasError(RejectedAt(out.passengers, k), "bad_phone")

\* the flight numbers of the create_flight calls that succeeded / failed
CreatedNumbers(calls) == {calls[i].data.flight_number : i \in {j \in 1..Len(calls) : calls[j].ok}}
FailedNumbers(calls) == {calls[i].data.flight_number : i \in {j \in 1..Len(calls) : ~calls[j].ok}}

\* a well-formed fare row citing flight number n
FareCiting(n) == FareRow(Str(n), Str(X_econ), Num(100), Num(10))

\* C20: the flight map returned by load_flight_data has a key for exactly the
\* flight numbers whose create succeeded, each mapped to the identifier the
\* store returned for that create (the latest, when a number is created
\* twice); a flight whose create failed contributes no key, and a fare citing
\* it gets the flight-not-found error.
C20_FlightMapOfCreated ==
    (kind = "flights" /\ pc = "t_loaded") =>
        /\ DOMAIN fmap = CreatedNumbers(CallsOf("create_flight"))
        /\ fmap = FlightMapOf(CallsOf("create_flight"))
        /\ \A n \in FailedNumbers(CallsOf("create_flight")) \ CreatedNumbers(CallsOf("create_flight")) :
              /\ n \notin DOMAIN fmap
              /\ \E i \in 1..Len(_validate_fare_row(FareCiting(n), fmap)) :
                    _validate_fare_row(FareCiting(n), fmap)[i].e = "flight_not_found"

\* a flight load in which one flight was created and another one's create failed
W_C20 ==
    /\ kind = "flights" /\ pc = "t_loaded"
    /\ fmap # <<>>
    /\ FailedNumbers(CallsOf("create_flight")) \ CreatedNumbers(CallsOf("create_flight")) # {}

\* control positions of the reporting step and after it
ReportingStages == {"visualize", "report", "done"}

\* C21: a run follows IDLE -> LISTING -> PROCESSING_FEED* -> REPORTING ->
\* DONE: the files are listed once, before any file is processed; files are
\* processed one at a time; the reporting step (dashboard, final report)
\* runs exactly once, after the last file and before the run returns; and
\* nothing is processed once reporting has started.
C21_RunPhases ==
    [][/\ files' # files => pc = "idle"
       /\ pc' # "idle"
       /\ pc' \in PassengerStages \cup FlightStages =>
             pc \in PassengerStages \cup FlightStages \cup {"loop"}
       /\ pc' \in {"p_extract", "f_extract"} => pc = "loop"
       /\ pc' = "visualize" => pc = "loop" /\ fidx = Len(files) + 1
       /\ pc' = "report" => pc = "visualize"
       /\ pc' = "done" => pc = "report" /\ final = None /\ final' # None
       /\ final' # final => pc = "report"
       /\ pc \in ReportingStages =>
             /\ pc' \in ReportingStages
             /\ UNCHANGED <<files, fidx, stats, raw, out, lres, fmap, db, reports>>
      ]_vars

\* the rejected rows carry increasing input indices, and the accepted rows
\* are the records of the remaining input rows, in input order
InSourceOrder(f, o) ==
    /\ \A i, j \in 1..Len(o.errors) :
          i < j => o.errors[i]._original_index < o.errors[j]._original_index
    /\ \A k \in (1..Len(raw[f])) \ RejectedIdx(o) :
          AcceptedAs(o, Rank(o, k), RowStep(f, k))

\* the create operation of a feed's loader
CreateOp == [passengers |-> "create_passenger", flights |-> "create_flight",
             fares |-> "create_fare"]

\* C22: within each transformer's output the accepted rows keep the relative
\* order of the source, and so do the rejected rows; each loader then
\* attempts its creates in that same order.
C22_SourceOrderKept ==
    /\ pc = "t_transformed" => InSourceOrder(kind, out[kind])
    /\ pc = "t_loaded" =>
          \A i \in 1..Len(CallsOf(CreateOp[kind])) :
              /\ i <= Len(out[kind].valid)
              /\ CallsOf(CreateOp[kind])[i].data = out[kind].valid[i]

\* a passenger load over two different accepted rows
W_C22 ==
    /\ pc = "t_loaded" /\ kind = "passengers"
    /\ Len(out.passengers.valid) = 2
    /\ out.passengers.valid[1] # out.passengers.valid[2]
    /\ Len(CallsOf("create_passenger")) = 2

\* the field is present in the row, not NA and not blank
Filled(c, field) ==
    field \in DOMAIN c /\ ~isna(c[field]) /\ str_strip(py_str(c[field])) # <<>>

\* the acceptance conditions of a flight row, on the cleaned row
FlightAcceptable(c) ==
    /\ \A i \in 1..Len(FLIGHT_REQUIRED_FIELDS) : Filled(c, FLIGHT_REQUIRED_FIELDS[i])
    /\ Len(py_str(c["departure_airport_code"])) = 3
    /\ Len(py_str(c["arrival_airport_code"])) = 3
    /\ strptime(py_str(c["scheduled_departure"]), DATETIME_FORMAT).ok
    /\ strptime(py_str(c["scheduled_arrival"]), DATETIME_FORMAT).ok
    /\ time_less(strptime(py_str(c["scheduled_departure"]), DATETIME_FORMAT).v,
                 strptime(py_str(c["scheduled_arrival"]), DATETIME_FORMAT).v)
    /\ py_int(c["total_seats"]).ok /\ py_int(c["total_seats"]).v > 0

\* C23: a flight row is accepted by validate_flight_row if and only if all
\* six required fields are present and non-blank, both airport codes have
\* exactly 3 characters, both timestamps parse as 'YYYY-MM-DD HH:MM:SS',
\* arrival is strictly after departure, and total_seats parses as an integer
\* greater than 0.
C23_FlightAcceptance ==
    (kind = "flights" /\ pc \in {"t_transformed", "t_raised"}) =>
        \A k \in 1..Len(raw.flights) :
            IF out.flights.raised /\ k >= out.flights.at
            THEN k = out.flights.at =>
                    ~FlightAcceptable(clean_columns(raw.flights[k].row, FLIGHT_TEXT_COLUMNS))
            ELSE k \notin RejectedIdx(out.flights)
                    <=> FlightAcceptable(clean_columns(raw.flights[k].row, FLIGHT_TEXT_COLUMNS))

\* a sheet with an accepted flight and one rejected only for having no seats
W_C23 ==
    /\ kind = "flights" /\ pc = "t_transformed"
    /\ Len(out.flights.valid) >= 1
    /\ \E k \in RejectedIdx(out.flights) :
          RejectedAt(out.flights, k)._errors = <<Err("seats_not_positive", <<"total_seats">>)>>

\* cleaning the cleaned value of a cell returns it unchanged
CleanIdempotent(v) == clean_text(Str(clean_text(v))) = clean_text(v)

\* the accept decision of validate_passenger_row on a row cleaned once more
Revalidated(c) == validate_passenger_row(clean_columns(c, PASSENGER_TEXT_COLUMNS)).ok

\* C24: text cleaning is idempotent, clean_text(clean_text(v)) = clean_text(v)
\* for every value v, missing values included, and validating a row again
\* after its text fields have been cleaned yields the decision of the first
\* validation.
C24_CleaningIdempotent ==
    pc = "t_transformed" =>
        /\ \A k \in 1..Len(raw[kind]) : \A col \in DOMAIN raw[kind][k].row :
              CleanIdempotent(raw[kind][k].row[col])
        /\ kind = "passengers" =>
              \A k \in 1..Len(raw.passengers) :
                  IF k \in RejectedIdx(out.passengers)
                  THEN ~Revalidated(RejectedAt(out.passengers, k).row)
                  ELSE Revalidated(clean_columns(raw.passengers[k].row,
                                                 PASSENGER_TEXT_COLUMNS))

\* an accepted passenger whose last_name was changed by cleaning, next to a
\* rejected one with a missing cell
W_C24 ==
    /\ pc = "t_transformed" /\ kind = "passengers"
    /\ Len(out.passengers.errors) >= 1
    /\ \E k \in (1..Len(raw.passengers)) \ RejectedIdx(out.passengers) :
          /\ raw.passengers[k].row["last_name"].t = "str"
          /\ clean_text(raw.passengers[k].row["last_name"])
                 # raw.passengers[k].row["last_name"].s

\* C25: the stats account for the rows of every file of a feed type: when a
\* feed's entry is written again for a later file, the entry of the earlier
\* file is not overwritten and lost, the new entry counts the rows of both.
C25_StatsAccumulate ==
    [][\A f \in DOMAIN stats :
          (stats'[f] # stats[f] /\ ~IsErrorEntry(stats[f])) =>
              /\ ~IsErrorEntry(stats'[f])
              /\ stats'[f].valid_records = stats[f].valid_records + Len(out[f].valid)
              /\ stats'[f].error_records = stats[f].error_records + Len(out[f].errors)
      ]_vars

\* C26: every transformer is total over rows: it never raises, and every
\* input row (rows with missing optional cells such as fare_class included)
\* is either accepted or rejected.
C26_TransformersTotal ==
    \A f \in Feeds :
        Ran(f) =>
            /\ ~out[f].raised
            /\ Len(out[f].valid) + Len(out[f].errors) = Len(raw[f])

\* the feed's stats entry is the error marker and nothing else
OnlyError(st, f) == f \in DOMAIN st /\ DOMAIN st[f] = {"error"}

\* C27: when process_flights_file fails after the flight load has completed
\* (flight report, fare extraction, fare transformation, fare load or fare
\* report raises), the flights already created stay in the store while
\* stats['flights'] and stats['fares'] both become an error entry: an entry
\* showing only 'error' does not tell that nothing of the feed was persisted.
C27_FlightsKeptDespiteError ==
    [][(pc \in {"f_report"} \cup FareStages /\ pc' = "loop") =>
          /\ OnlyError(stats', "flights") /\ OnlyError(stats', "fares")
          /\ \A i \in 1..Len(db.calls) : db'.calls[i] = db.calls[i]
          /\ CallsOf("create_flight")' = CallsOf("create_flight")
          /\ lres'.flights = lres.flights
      ]_vars

\* a finished run whose only file left error entries for flights and fares
\* although one of its flights was created
W_C27 ==
    /\ pc = "done" /\ Len(files) = 1
    /\ OnlyError(stats, "flights") /\ OnlyError(stats, "fares")
    /\ lres.flights # None /\ lres.flights.flights_created >= 1
    /\ \E i \in 1..Len(CallsOf("create_flight")) : CallsOf("create_flight")[i].ok

\* the cleaned fare row passes _validate_fare_row
PassesFareValidation(row) ==
    _validate_fare_row(clean_columns(row, {"fare_class", "fare_conditions"}), fmap) = <<>>

\* C28: given a flight map produced by load_flight_data, every fare row that
\* passes _validate_fare_row has its upper-cased cleaned flight number in the
\* map, so _transform_valid_fare does not fail on a missing key, and each
\* accepted fare's flight_id is a value of the map.
C28_ValidatedFareResolves ==
    Ran("fares") =>
        /\ \A k \in 1..Len(raw.fares) :
              PassesFareValidation(raw.fares[k].row) =>
                  /\ str_upper(clean_text(raw.fares[k].row["flight_number"])) \in DOMAIN fmap
                  /\ ~(out.fares.raised /\ out.fares.at = k /\ out.fares.exc = "KeyError")
        /\ \A i \in 1..Len(out.fares.valid) :
              \E n \in DOMAIN fmap : fmap[n] = out.fares.valid[i].flight_id

\* the positions of the successful create_flight calls for flight number n
CreatedAs(calls, n) ==
    {i \in 1..Len(calls) : calls[i].ok /\ calls[i].data.flight_number = n}

\* the greatest element of a non-empty set of numbers
Latest(S) == CHOOSE i \in S : \A j \in S : j <= i

\* C29: when several accepted flight rows carry the same upper-cased flight
\* number and their creates succeed, every one is created and counted in
\* flights_created, the flight map holds one entry for the number, with the
\* identifier of the last one created, and a fare citing the number is
\* attached to that last flight.
C29_DuplicateNumberLastWins ==
    (kind = "flights" /\ pc = "t_loaded") =>
        /\ Len(CallsOf("create_flight")) = Len(out.flights.valid)
        /\ lres.flights.flights_created = OkCount(CallsOf("create_flight"))
        /\ \A i \in 1..Len(out.flights.valid) :
              LET n == out.flights.valid[i].flight_number
              IN  CreatedAs(CallsOf("create_flight"), n) # {} =>
                      /\ n \in DOMAIN fmap
                      /\ fmap[n] = CallsOf("create_flight")[
                                       Latest(CreatedAs(CallsOf("create_flight"), n))].id
                      /\ ~_transform_valid_fare(FareCiting(n), fmap).raised
                      /\ _transform_valid_fare(FareCiting(n), fmap).rec.flight_id = fmap[n]

\* two flights of one number were created; the map points at the second
W_C29 ==
    /\ kind = "flights" /\ pc = "t_loaded"
    /\ Len(out.flights.valid) = 2
    /\ out.flights.valid[1].flight_number = out.flights.valid[2].flight_number
    /\ lres.flights.flights_created = 2
    /\ fmap[out.flights.valid[1].flight_number] = CallsOf("create_flight")[2].id
    /\ CallsOf("create_flight")[1].id # CallsOf("create_flight")[2].id

\* C30: at the return of each loader its counters are consistent: for the
\* flight and fare loaders created + len(errors) = total_processed; for the
\* passenger loader documents_created <= passengers_created <=
\* total_processed, and every row contributes either a created document or
\* exactly one error entry.
C30_LoaderCounters ==
    pc = "t_loaded" =>
        /\ lres[kind].total_processed = Len(out[kind].valid)
        /\ CASE kind = "flights" ->
                   lres.flights.flights_created + Len(lres.flights.errors)
                       = lres.flights.total_processed
             [] kind = "fares" ->
                   lres.fares.fares_created + Len(lres.fares.errors)
                       = lres.fares.total_processed
             [] OTHER ->
                   /\ lres.passengers.documents_created <= lres.passengers.passengers_created
                   /\ lres.passengers.passengers_created <= lres.passengers.total_processed
                   /\ lres.passengers.documents_created + Len(lres.passengers.errors)
                          = lres.passengers.total_processed

\* a passenger load with fewer documents than passengers and fewer
\* passengers than rows
W_C30 ==
    /\ pc = "t_loaded" /\ kind = "passengers"
    /\ lres.passengers.documents_created < lres.passengers.passengers_created
    /\ lres.passengers.passengers_created < lres.passengers.total_processed

====
